---- MODULE Spec2Model ----
(***************************************************************************)
(* Model of flowly: the WhatsApp webhook dispatcher (handleMessage), the   *)
(* flow state machine (processMessage), the renderer (RenderAndSend), the  *)
(* flow validation at load (loadFlowConfig / validateFlowConfig), the      *)
(* tenant resolver, the session store and the config cache.                *)
(*                                                                         *)
(* Go strings the code looks into (text bodies, tenant names, user ids,    *)
(* environment values, list texts) are sequences of runes, a rune being a  *)
(* one-character string.  Identifiers the code only compares (state names, *)
(* row ids, type tags) are plain strings.  A Go pointer is a sequence of   *)
(* length at most one: Nil or Ptr(x).                                      *)
(*                                                                         *)
(* cur[w] holds the local variables of the delivery worker w is handling,  *)
(* out[w] the requests it has sent for its current message, seen the       *)
(* (tenant, user) pairs a message has been taken up for so far; fin and    *)
(* fout hold the arguments and the result of a single call in the          *)
(* specifications that exercise one function.                              *)
(***************************************************************************)
EXTENDS Integers, Sequences, FiniteSets, TLC

VARIABLES env, resolver, disk, cache, sessions, pc, queue, cur, out, seen, fin, fout

vars == <<env, resolver, disk, cache, sessions, pc, queue, cur, out, seen, fin, fout>>

appVars == <<env, resolver, disk, cache, sessions, pc, queue, cur, out, seen>>

-----------------------------------------------------------------------------
(* Pointers *)

Nil == <<>>

Ptr(x) == <<x>>

Deref(p) == p[1]

-----------------------------------------------------------------------------
(* package strings / unicode/utf8, on sequences of runes *)

Rep(r, n) == [i \in 1..n |-> r]

\* A rune is written as its character up to U+00FF and as "U+XXXX" above.
\* unicode.IsSpace: \t \n \v \f \r, the space, U+0085, U+00A0 and the
\* Unicode space separators.
SpaceRunes ==
    {"\t", "\n", "", "\f", "\r", " ", "", " ", "U+1680", "U+2000",
     "U+2001", "U+2002", "U+2003", "U+2004", "U+2005", "U+2006", "U+2007",
     "U+2008", "U+2009", "U+200A", "U+2028", "U+2029", "U+202F", "U+205F",
     "U+3000"}

IsSpace(r) == r \in SpaceRunes

RECURSIVE TrimLeft(_)
TrimLeft(s) == IF s # <<>> /\ IsSpace(Head(s)) THEN TrimLeft(Tail(s)) ELSE s

RECURSIVE TrimRight(_)
TrimRight(s) ==
    IF s # <<>> /\ IsSpace(s[Len(s)]) THEN TrimRight(SubSeq(s, 1, Len(s) - 1)) ELSE s

TrimSpace(s) == TrimRight(TrimLeft(s))

\* The runes that fold to another rune under Unicode simple case folding,
\* among the runes of the model, and the rune each folds to.
UpperRunes ==
    <<"A", "B", "C", "D", "E", "F", "G", "H", "I", "J", "K", "L", "M", "N",
      "O", "P", "Q", "R", "S", "T", "U", "V", "W", "X", "Y", "Z", "À", "Á",
      "Â", "Ã", "Ä", "Å", "Æ", "Ç", "È", "É", "Ê", "Ë", "Ì", "Í", "Î", "Ï",
      "Ð", "Ñ", "Ò", "Ó", "Ô", "Õ", "Ö", "Ø", "Ù", "Ú", "Û", "Ü", "Ý", "Þ",
      "U+212A", "U+017F", "U+212B", "U+0178", "U+1E9E", "U+039C", "U+03BC">>

LowerRunes ==
    <<"a", "b", "c", "d", "e", "f", "g", "h", "i", "j", "k", "l", "m", "n",
      "o", "p", "q", "r", "s", "t", "u", "v", "w", "x", "y", "z", "à", "á",
      "â", "ã", "ä", "å", "æ", "ç", "è", "é", "ê", "ë", "ì", "í", "î", "ï",
      "ð", "ñ", "ò", "ó", "ô", "õ", "ö", "ø", "ù", "ú", "û", "ü", "ý", "þ",
      "k", "s", "å", "ÿ", "ß", "µ", "µ">>

Folds == [r \in {UpperRunes[i] : i \in 1..Len(UpperRunes)} |->
             LowerRunes[CHOOSE i \in 1..Len(UpperRunes) : UpperRunes[i] = r]]

FoldRune(r) == IF r \in DOMAIN Folds THEN Folds[r] ELSE r

EqualFold(s, t) ==
    /\ Len(s) = Len(t)
    /\ \A i \in 1..Len(s) : FoldRune(s[i]) = FoldRune(t[i])

HasPrefix(s, p) == Len(s) >= Len(p) /\ SubSeq(s, 1, Len(p)) = p

TrimPrefix(s, p) == IF HasPrefix(s, p) THEN SubSeq(s, Len(p) + 1, Len(s)) ELSE s

\* utf8.RuneLen: the runes of two, three and four bytes among the runes of
\* the model; every other rune is ASCII and takes one byte.
TwoByteRunes ==
    {"", "", "", "", "", "", "", "", "", "", "", "", "", "",
     "", "", "", "", "", "", "", "", "", "", "", "", "", "",
     "", "", "", "", " ", "¡", "¢", "£", "¤", "¥", "¦", "§", "¨", "©",
     "ª", "«", "¬", "­", "®", "¯", "°", "±", "²", "³", "´", "µ", "¶", "·",
     "¸", "¹", "º", "»", "¼", "½", "¾", "¿", "À", "Á", "Â", "Ã", "Ä", "Å",
     "Æ", "Ç", "È", "É", "Ê", "Ë", "Ì", "Í", "Î", "Ï", "Ð", "Ñ", "Ò", "Ó",
     "Ô", "Õ", "Ö", "×", "Ø", "Ù", "Ú", "Û", "Ü", "Ý", "Þ", "ß", "à", "á",
     "â", "ã", "ä", "å", "æ", "ç", "è", "é", "ê", "ë", "ì", "í", "î", "ï",
     "ð", "ñ", "ò", "ó", "ô", "õ", "ö", "÷", "ø", "ù", "ú", "û", "ü", "ý",
     "þ", "ÿ", "U+017F", "U+0178", "U+039C", "U+03BC"}

ThreeByteRunes ==
    {"U+1680", "U+2000", "U+2001", "U+2002", "U+2003", "U+2004", "U+2005",
     "U+2006", "U+2007", "U+2008", "U+2009", "U+200A", "U+2028", "U+2029",
     "U+202F", "U+205F", "U+3000", "U+1E9E", "U+20AC", "U+212A", "U+212B",
     "U+26A0"}

FourByteRunes == {"U+1F916", "U+1F527"}

RuneBytes(r) ==
    IF r \in TwoByteRunes THEN 2
    ELSE IF r \in ThreeByteRunes THEN 3
    ELSE IF r \in FourByteRunes THEN 4
    ELSE 1

RECURSIVE ByteLen(_)
ByteLen(s) == IF s = <<>> THEN 0 ELSE RuneBytes(Head(s)) + ByteLen(Tail(s))

\* The length in bytes where the code counts code points.
runeBytes(s) == ByteLen(s)

runeLen(s) == Len(s)

\* strings.Split(s, sep) for a one-rune separator.
RECURSIVE Split(_, _)
Split(s, sep) ==
    LET hits == {i \in 1..Len(s) : s[i] = sep}
    IN  IF hits = {} THEN <<s>>
        ELSE LET k == CHOOSE i \in hits : \A j \in hits : i <= j
             IN  <<SubSeq(s, 1, k - 1)>> \o Split(SubSeq(s, k + 1, Len(s)), sep)

\* strings.SplitN(s, sep, 2) for a one-rune separator.
SplitN2(s, sep) ==
    LET hits == {i \in 1..Len(s) : s[i] = sep}
    IN  IF hits = {} THEN <<s>>
        ELSE LET k == CHOOSE i \in hits : \A j \in hits : i <= j
             IN  <<SubSeq(s, 1, k - 1), SubSeq(s, k + 1, Len(s))>>

-----------------------------------------------------------------------------
(* Flow definition: FlowConfig, FlowState, FlowList, FlowSection, FlowRow.  *)
(* A FlowConfig is [Version, States], States a function from state names;   *)
(* a FlowState is [Type, Body, List, OnTextNext, OnSelectNext], List a      *)
(* pointer to [Header, ButtonText, Footer, Sections] and OnSelectNext a     *)
(* function from row ids to state names (the nil map is the empty one).     *)

EmptyMap == <<>>

MapPut(m, k, v) == [x \in (DOMAIN m) \cup {k} |-> IF x = k THEN v ELSE m[x]]

HeaderMax == 60

FooterMax == 60

ButtonTextMax == 20

SectionTitleMax == 24

RowTitleMax == 24

RowDescMax == 72

\* One entry of errs: the state, the field, the rune count and the text.
ErrEntry(stateName, field, text) == <<stateName, field, runeLen(text), text>>

TooLong(stateName, field, text, max) ==
    IF runeLen(text) > max THEN <<ErrEntry(stateName, field, text)>> ELSE <<>>

RowErrs(stateName, row) ==
    (IF row.ID = "" THEN <<ErrEntry(stateName, "row id", row.Title)>> ELSE <<>>)
    \o TooLong(stateName, "row title", row.Title, RowTitleMax)
    \o TooLong(stateName, "row desc", row.Description, RowDescMax)

RECURSIVE RowsErrs(_, _)
RowsErrs(stateName, rows) ==
    IF rows = <<>> THEN <<>>
    ELSE RowErrs(stateName, Head(rows)) \o RowsErrs(stateName, Tail(rows))

RECURSIVE SectionsErrs(_, _)
SectionsErrs(stateName, secs) ==
    IF secs = <<>> THEN <<>>
    ELSE TooLong(stateName, "section title", Head(secs).Title, SectionTitleMax)
         \o RowsErrs(stateName, Head(secs).Rows)
         \o SectionsErrs(stateName, Tail(secs))

StateErrs(stateName, st) ==
    IF st.Type # "interactive_list" \/ st.List = Nil THEN <<>>
    ELSE LET l == Deref(st.List)
         IN  TooLong(stateName, "header", l.Header, HeaderMax)
             \o TooLong(stateName, "footer", l.Footer, FooterMax)
             \o TooLong(stateName, "button_text", l.ButtonText, ButtonTextMax)
             \o SectionsErrs(stateName, l.Sections)

\* The errs of the loop over cfg.States, visited in the order `order`
\* (Go leaves the order of a map range unspecified).
RECURSIVE CollectErrs(_, _)
CollectErrs(cfg, order) ==
    IF order = <<>> THEN <<>>
    ELSE StateErrs(Head(order), cfg.States[Head(order)]) \o CollectErrs(cfg, Tail(order))

\* The orders in which a map with key set S can be ranged over.
RECURSIVE RangeOrders(_)
RangeOrders(S) ==
    IF S = {} THEN {<<>>}
    ELSE UNION {{<<x>> \o o : o \in RangeOrders(S \ {x})} : x \in S}

\* Returns the error: Nil, or a pointer to [kind, tenant, errs].
validateFlowConfig(tenant, cfg, order) ==
    LET errs == CollectErrs(cfg, order)
    IN  IF Len(errs) > 0
        THEN Ptr([kind |-> "invalid", tenant |-> tenant, errs |-> errs])
        ELSE Nil

NoConfig == [Version |-> "", States |-> EmptyMap]

\* A file configs/<tenant>/flow.json: kind "missing" (ReadFile fails),
\* "badjson" (Unmarshal fails) or "json" with the FlowConfig it decodes to.
\* Returns [cfg, err].
\* A load that decodes the file and skips the length validation.
loadFlowConfigUnchecked(tenant, order) ==
    LET file == disk[tenant]
    IN  IF file.kind = "missing"
        THEN [cfg |-> NoConfig, err |-> Ptr([kind |-> "read", tenant |-> tenant, errs |-> <<>>])]
        ELSE IF file.kind = "badjson"
        THEN [cfg |-> NoConfig, err |-> Ptr([kind |-> "json", tenant |-> tenant, errs |-> <<>>])]
        ELSE IF Cardinality(DOMAIN file.cfg.States) = 0
        THEN [cfg |-> NoConfig, err |-> Ptr([kind |-> "nostates", tenant |-> tenant, errs |-> <<>>])]
        ELSE [cfg |-> file.cfg, err |-> Nil]

loadFlowConfig(tenant, order) ==
    LET file == disk[tenant]
    IN  IF file.kind = "missing"
        THEN [cfg |-> NoConfig, err |-> Ptr([kind |-> "read", tenant |-> tenant, errs |-> <<>>])]
        ELSE IF file.kind = "badjson"
        THEN [cfg |-> NoConfig, err |-> Ptr([kind |-> "json", tenant |-> tenant, errs |-> <<>>])]
        ELSE IF Cardinality(DOMAIN file.cfg.States) = 0
        THEN [cfg |-> NoConfig, err |-> Ptr([kind |-> "nostates", tenant |-> tenant, errs |-> <<>>])]
        ELSE IF validateFlowConfig(tenant, file.cfg, order) # Nil
        THEN [cfg |-> NoConfig, err |-> validateFlowConfig(tenant, file.cfg, order)]
        ELSE [cfg |-> file.cfg, err |-> Nil]

-----------------------------------------------------------------------------
(* Inbound messages: IncomingMessage is [From, Type, Text, Interactive],    *)
(* Text a pointer to the body, Interactive a pointer to                     *)
(* [Type, ButtonReply, ListReply], each reply a pointer to the selected id. *)

MenuWord == <<"m", "e", "n", "u">>

Decision(next, handled) == [next |-> next, handled |-> handled, err |-> Nil]

\* The unconditional reset for a current state the definition does not hold.
\* The reset of an unknown state reported as a handled transition.
UnknownStateHandled == Decision("MENU", TRUE)

UnknownStateDecision == Decision("MENU", FALSE)

\* The keyword compared without trimming the body.
IsMenuNoTrim(body) == EqualFold(body, MenuWord)

\* The keyword compared as typed, neither trimmed nor case-folded.
IsMenuExact(body) == body = MenuWord

\* txt := strings.TrimSpace(body); strings.EqualFold(txt, "menu")
IsMenuKeyword(body) == EqualFold(TrimSpace(body), MenuWord)

\* The text transition taken without the check that it is declared.
TextNextUnchecked(st) == Decision(st.OnTextNext, TRUE)

TextNext(st) ==
    IF st.OnTextNext # "" THEN Decision(st.OnTextNext, TRUE) ELSE Decision("MENU", FALSE)

\* The selection looked up without the check that its target is non-empty.
SelectNextAnyTarget(st, id) ==
    IF id \in DOMAIN st.OnSelectNext
    THEN Decision(st.OnSelectNext[id], TRUE)
    ELSE Decision("MENU", FALSE)

SelectNext(st, id) ==
    IF id \in DOMAIN st.OnSelectNext /\ st.OnSelectNext[id] # ""
    THEN Decision(st.OnSelectNext[id], TRUE)
    ELSE Decision("MENU", FALSE)

\* processMessage once the flow definition cfg is at hand.
decide(cfg, state, msg) ==
    IF state \notin DOMAIN cfg.States THEN UnknownStateDecision
    ELSE LET st == cfg.States[state]
         IN  IF msg.Type = "text"
             THEN IF msg.Text = Nil THEN Decision("MENU", FALSE)
                  ELSE IF IsMenuKeyword(Deref(msg.Text)) THEN Decision("MENU", TRUE)
                  ELSE TextNext(st)
             ELSE IF msg.Type = "interactive"
             THEN IF msg.Interactive = Nil THEN Decision("MENU", FALSE)
                  ELSE LET ia == Deref(msg.Interactive)
                       IN  IF ia.Type = "list_reply"
                           THEN IF ia.ListReply = Nil THEN Decision("MENU", FALSE)
                                ELSE SelectNext(st, Deref(ia.ListReply))
                           ELSE IF ia.Type = "button_reply"
                           THEN IF ia.ButtonReply = Nil THEN Decision("MENU", FALSE)
                                ELSE SelectNext(st, Deref(ia.ButtonReply))
                           ELSE Decision("MENU", FALSE)
             ELSE Decision("MENU", FALSE)

\* processMessage as one call: [next, handled, err, cache], cache being the
\* cache after the call and order the range order of the validation.
processMessage(tenant, state, msg, order) ==
    LET hit    == tenant \in DOMAIN cache
        loaded == loadFlowConfig(tenant, order)
    IN  IF ~hit /\ loaded.err # Nil
        THEN [next |-> "", handled |-> FALSE, err |-> loaded.err, cache |-> cache]
        ELSE LET d == decide(IF hit THEN cache[tenant] ELSE loaded.cfg, state, msg)
             IN  [next |-> d.next, handled |-> d.handled, err |-> d.err,
                  cache |-> IF hit THEN cache ELSE MapPut(cache, tenant, loaded.cfg)]

-----------------------------------------------------------------------------
(* Templating *)

RECURSIVE ReplaceAll(_, _, _)
ReplaceAll(s, old, new) ==
    IF Len(s) < Len(old) THEN s
    ELSE IF HasPrefix(s, old)
    THEN new \o ReplaceAll(SubSeq(s, Len(old) + 1, Len(s)), old, new)
    ELSE <<Head(s)>> \o ReplaceAll(Tail(s), old, new)

Placeholder(k) == <<"{", "{">> \o k \o <<"}", "}">>

RECURSIVE ReplaceEach(_, _, _)
ReplaceEach(s, vs, order) ==
    IF order = <<>> THEN s
    ELSE ReplaceEach(ReplaceAll(s, Placeholder(Head(order)), vs[Head(order)]), vs, Tail(order))

\* vs maps keys to values; order is the order in which the range visits the keys.
renderVars(s, vs, order) ==
    IF s = <<>> \/ Cardinality(DOMAIN vs) = 0 THEN s ELSE ReplaceEach(s, vs, order)

-----------------------------------------------------------------------------
(* Environment and tenant resolver.  env is the process environment after   *)
(* loadEnvFiles: a record of the variables the code reads.                  *)

Getenv(name) == env[name]

DevEnv == <<"d", "e", "v">>

ProdEnv == <<"p", "r", "o", "d">>

BrokerTenant == <<"b", "r", "o", "k", "e", "r">>

\* APP_ENV trimmed, "dev" when empty.
AppEnv ==
    IF TrimSpace(Getenv("APP_ENV")) = <<>> THEN DevEnv ELSE TrimSpace(Getenv("APP_ENV"))

RECURSIVE ParsePairs(_, _)
ParsePairs(parts, m) ==
    IF parts = <<>> THEN m
    ELSE LET p  == TrimSpace(Head(parts))
             kv == SplitN2(p, ":")
         IN  IF p = <<>> \/ Len(kv) # 2 THEN ParsePairs(Tail(parts), m)
             ELSE ParsePairs(Tail(parts), MapPut(m, TrimSpace(kv[1]), TrimSpace(kv[2])))

NewTenantResolver(raw, def) ==
    [byPhoneNumberID |-> IF raw # <<>> THEN ParsePairs(Split(raw, ","), EmptyMap) ELSE EmptyMap,
     defaultTenant   |-> IF def = <<>> THEN BrokerTenant ELSE def]

Resolve(r, phoneNumberID) ==
    IF phoneNumberID \in DOMAIN r.byPhoneNumberID /\ r.byPhoneNumberID[phoneNumberID] # <<>>
    THEN r.byPhoneNumberID[phoneNumberID]
    ELSE r.defaultTenant

-----------------------------------------------------------------------------
(* WhatsApp client *)

normalizeRecipientForMeta(to) ==
    IF AppEnv = ProdEnv THEN to
    ELSE LET t == TrimPrefix(TrimSpace(to), <<"+">>)
         IN  IF HasPrefix(t, <<"5", "4", "9">>) /\ Len(t) > 3
             THEN <<"5", "4">> \o SubSeq(t, 4, Len(t))
             ELSE t

\* Returns [client, err]; the client is [token, phoneID, forceTo].
NewWhatsAppClient(phoneNumberID) ==
    IF Getenv("WHATSAPP_TOKEN") = <<>>
    THEN [client |-> Nil, err |-> Ptr("WHATSAPP_TOKEN no seteado")]
    ELSE [client |-> Ptr([token   |-> Getenv("WHATSAPP_TOKEN"),
                          phoneID |-> phoneNumberID,
                          forceTo |-> IF AppEnv # DevEnv THEN <<>>
                                      ELSE Getenv("WHATSAPP_FORCE_TO")]),
          err |-> Nil]

Recipient(c, to) == normalizeRecipientForMeta(IF c.forceTo # <<>> THEN c.forceTo ELSE to)

\* One outbound request: the payload handed to post, and whether Meta
\* answered with a 2xx status.
Sent(c, payload, ok) == [phoneID |-> c.phoneID, payload |-> payload, ok |-> ok]

TextPayload(c, to, body) ==
    [type |-> "text", to |-> Recipient(c, to), text |-> Ptr(body), interactive |-> Nil]

Blank(s) == TrimSpace(s) = <<>>

WaRow(r) ==
    [id |-> r.ID, title |-> r.Title,
     description |-> IF Blank(r.Description) THEN Nil ELSE Ptr(r.Description)]

WaSection(sec) ==
    [title |-> sec.Title, rows |-> [i \in 1..Len(sec.Rows) |-> WaRow(sec.Rows[i])]]

ListPayload(c, to, header, body, footer, buttonText, sections) ==
    [type |-> "interactive", to |-> Recipient(c, to), text |-> Nil,
     interactive |-> Ptr([type     |-> "list",
                          body     |-> body,
                          button   |-> buttonText,
                          sections |-> [i \in 1..Len(sections) |-> WaSection(sections[i])],
                          header   |-> IF Blank(header) THEN Nil ELSE Ptr(header),
                          footer   |-> IF Blank(footer) THEN Nil ELSE Ptr(footer)])]

PostErr(ok) == IF ok THEN Nil ELSE Ptr("respuesta no OK de Meta")

\* sendText and sendList return [err, sends]: the error of post and the
\* request issued.
sendText(c, to, body, ok) ==
    [err |-> PostErr(ok), sends |-> <<Sent(c, TextPayload(c, to, body), ok)>>]

sendList(c, to, header, body, footer, buttonText, sections, ok) ==
    [err   |-> PostErr(ok),
     sends |-> <<Sent(c, ListPayload(c, to, header, body, footer, buttonText, sections), ok)>>]

-----------------------------------------------------------------------------
(* Renderer *)

DefaultPrompt ==
    <<"E", "l", "e", "g", "í", " ", "u", "n", "a", " ", "o", "p", "c", "i", "ó", "n", ":">>

\* Every call of renderVars ranges over the map anew. orders holds the order
\* of each call of one RenderAndSend: [Body, Header, Footer, ButtonText,
\* Sections], Sections[i] being [Title, Rows] and Rows[j] [Title, Description].
RenderRow(row, vs, orders) ==
    [ID          |-> row.ID,
     Title       |-> renderVars(row.Title, vs, orders.Title),
     Description |-> renderVars(row.Description, vs, orders.Description)]

RenderSection(sec, vs, orders) ==
    [Title |-> renderVars(sec.Title, vs, orders.Title),
     Rows  |-> [i \in 1..Len(sec.Rows) |-> RenderRow(sec.Rows[i], vs, orders.Rows[i])]]

\* fmt.Errorf of the renderer: the message and the value it formats.
RenderError(kind, arg) == Ptr([kind |-> kind, arg |-> arg])

\* The text case of the renderer's switch.
RenderText(st, wa, to, vs, orders, ok) ==
    sendText(wa, to, renderVars(st.Body, vs, orders.Body), ok)

\* The interactive_list case of the renderer's switch.
\* A list state rendered as a text message followed by the list.
RenderListAfterText(st, stateName, wa, to, vs, orders, ok) ==
    IF st.List = Nil THEN [err |-> RenderError("list es nil", stateName), sends |-> <<>>]
    ELSE LET l        == Deref(st.List)
             trimmed  == TrimSpace(st.Body)
             bodyText == renderVars(IF trimmed = <<>> THEN DefaultPrompt ELSE trimmed, vs,
                                    orders.Body)
             header   == renderVars(l.Header, vs, orders.Header)
             footer   == renderVars(l.Footer, vs, orders.Footer)
             button   == renderVars(l.ButtonText, vs, orders.ButtonText)
             sections == [i \in 1..Len(l.Sections) |->
                             RenderSection(l.Sections[i], vs, orders.Sections[i])]
             first    == sendText(wa, to, bodyText, ok)
             second   == sendList(wa, to, header, bodyText, footer, button, sections, ok)
         IN  [err |-> second.err, sends |-> first.sends \o second.sends]

RenderList(st, stateName, wa, to, vs, orders, ok) ==
    IF st.List = Nil THEN [err |-> RenderError("list es nil", stateName), sends |-> <<>>]
    ELSE LET l        == Deref(st.List)
             trimmed  == TrimSpace(st.Body)
             bodyText == renderVars(IF trimmed = <<>> THEN DefaultPrompt ELSE trimmed, vs,
                                    orders.Body)
             header   == renderVars(l.Header, vs, orders.Header)
             footer   == renderVars(l.Footer, vs, orders.Footer)
             button   == renderVars(l.ButtonText, vs, orders.ButtonText)
             sections == [i \in 1..Len(l.Sections) |->
                             RenderSection(l.Sections[i], vs, orders.Sections[i])]
         IN  sendList(wa, to, header, bodyText, footer, button, sections, ok)

\* RenderAndSend once the flow definition cfg is at hand: [err, sends].
renderState(cfg, stateName, wa, to, vs, orders, ok) ==
    IF stateName \notin DOMAIN cfg.States
    THEN [err |-> RenderError("estado no existe", stateName), sends |-> <<>>]
    ELSE LET st == cfg.States[stateName]
         IN  IF st.Type = "text" THEN RenderText(st, wa, to, vs, orders, ok)
             ELSE IF st.Type = "interactive_list"
             THEN RenderList(st, stateName, wa, to, vs, orders, ok)
             ELSE [err |-> RenderError("tipo de estado no soportado", st.Type), sends |-> <<>>]

\* nd holds what the call leaves open: the range order of the load (when
\* there is one), those of the calls of renderVars, and whether Meta accepts
\* the request.  Returns [err, sends, cache]: the error, the requests issued
\* and the cache after the call.
RenderAndSend(tenant, stateName, wa, to, vs, nd) ==
    LET hit    == tenant \in DOMAIN cache
        loaded == loadFlowConfig(tenant, nd.load)
    IN  IF ~hit /\ loaded.err # Nil
        THEN [err |-> loaded.err, sends |-> <<>>, cache |-> cache]
        ELSE LET cfg == IF hit THEN cache[tenant] ELSE loaded.cfg
                 r   == renderState(cfg, stateName, wa, to, vs, nd.vars, nd.ok)
             IN  [err   |-> r.err,
                  sends |-> r.sends,
                  cache |-> IF hit THEN cache ELSE MapPut(cache, tenant, loaded.cfg)]

\* The orders the calls of renderVars for a section can take.
SectionOrders(sec, vs) ==
    [Title : RangeOrders(DOMAIN vs),
     Rows  : [1..Len(sec.Rows) -> [Title : RangeOrders(DOMAIN vs),
                                   Description : RangeOrders(DOMAIN vs)]]]

\* The orders the calls of renderVars can take when state st is rendered.
StateOrders(st, vs) ==
    IF st.Type = "interactive_list" /\ st.List # Nil
    THEN LET secs == Deref(st.List).Sections
             all  == UNION {SectionOrders(secs[i], vs) : i \in 1..Len(secs)}
         IN  [Body : RangeOrders(DOMAIN vs), Header : RangeOrders(DOMAIN vs),
              Footer : RangeOrders(DOMAIN vs), ButtonText : RangeOrders(DOMAIN vs),
              Sections : {f \in [1..Len(secs) -> all] :
                             \A i \in 1..Len(secs) : f[i] \in SectionOrders(secs[i], vs)}]
    ELSE [Body : RangeOrders(DOMAIN vs)]

\* What a call of RenderAndSend for tenant, state and variables vs leaves
\* open; the state is looked up in the definition the call will use.
RenderChoices(tenant, stateName, vs) ==
    LET cfg == IF tenant \in DOMAIN cache THEN cache[tenant] ELSE disk[tenant].cfg
    IN  [load : IF tenant \in DOMAIN cache THEN {<<>>}
                ELSE RangeOrders(DOMAIN disk[tenant].cfg.States),
         vars : IF stateName \in DOMAIN cfg.States
                THEN StateOrders(cfg.States[stateName], vs)
                ELSE {<<>>},
         ok   : BOOLEAN]

-----------------------------------------------------------------------------
(* Session store and dispatcher (handleMessage), one step per lock-guarded  *)
(* or external operation.  UserSession.UpdatedAt is written and never read  *)
(* by the code; a session is [State].                                       *)

Workers == {1, 2}

SessionKey(tenant, waID) == tenant \o <<":">> \o waID

Session(state) == [State |-> state]

DefaultName == <<"a", "h", "í">>

NameKey == <<"n", "a", "m", "e">>

ErrorReply ==
    <<"P", "e", "r", "d", "ó", "n", ",", " ", "h", "u", "b", "o", " ", "u", "n", " ", "e", "r", "r", "o", "r", ".", " ", "P", "r", "o", "b", "á", " ", "d", "e", " ", "n", "u", "e", "v", "o", ".">>

MenuErrorReply ==
    <<"P", "e", "r", "d", "ó", "n", ",", " ", "h", "u", "b", "o", " ", "u", "n", " ", "p", "r", "o", "b", "l", "e", "m", "a", " ", "m", "o", "s", "t", "r", "a", "n", "d", "o", " ", "e", "l", " ", "m", "e", "n", "ú", ".">>

\* name of a change: the first contact's profile name, trimmed, or "ahí".
ContactName(contacts) ==
    LET n == IF Len(contacts) > 0 THEN TrimSpace(contacts[1]) ELSE <<>>
    IN  IF n = <<>> THEN DefaultName ELSE n

\* The messages of one change, each with the change's phone number id,
\* tenant and contact name.
ChangeItems(ch) ==
    [i \in 1..Len(ch.Messages) |->
        [phoneID |-> ch.PhoneNumberID,
         tenant  |-> Resolve(resolver, ch.PhoneNumberID),
         name    |-> ContactName(ch.Contacts),
         msg     |-> ch.Messages[i]]]

\* The messages of a payload in the order the loops over entries, changes
\* and messages reach them; a payload is the sequence of its changes.
RECURSIVE PayloadItems(_)
PayloadItems(payload) ==
    IF payload = <<>> THEN <<>>
    ELSE ChangeItems(Head(payload)) \o PayloadItems(Tail(payload))

NoCur ==
    [item |-> Nil, first |-> FALSE, sessKey |-> <<>>, found |-> FALSE, sess |-> "",
     file |-> Nil, cfg |-> Nil, dec |-> Nil, nextState |-> "", rcfg |-> Nil,
     render |-> Nil]

Item(w) == Head(queue[w])

\* `continue`, or the end of the loop body: on to the next message.
Advance(w) ==
    /\ queue' = [queue EXCEPT ![w] = Tail(queue[w])]
    /\ pc' = [pc EXCEPT ![w] = IF Tail(queue[w]) = <<>> THEN "done" ELSE "sessGet"]

\* A webhook POST arrives and is decoded.
Deliver(w, payload) ==
    /\ pc[w] = "idle"
    /\ PayloadItems(payload) # <<>>
    /\ queue' = [queue EXCEPT ![w] = PayloadItems(payload)]
    /\ pc' = [pc EXCEPT ![w] = "sessGet"]
    /\ UNCHANGED <<env, resolver, disk, cache, sessions, cur, out, seen, fin, fout>>

\* sess, ok := a.sessions.Get(sessKey)
SessGet(w) ==
    /\ pc[w] = "sessGet"
    /\ LET key   == SessionKey(Item(w).tenant, Item(w).msg.From)
           found == key \in DOMAIN sessions /\ sessions[key].State # ""
       IN  /\ cur' = [cur EXCEPT ![w] =
                         [NoCur EXCEPT !.item = Ptr(Item(w)),
                                       !.first = <<Item(w).tenant, Item(w).msg.From>> \notin seen,
                                       !.sessKey = key,
                                       !.found = found,
                                       !.sess = IF found THEN sessions[key].State ELSE "MENU"]]
           /\ pc' = [pc EXCEPT ![w] = IF found THEN "process" ELSE "sessInit"]
    /\ out' = [out EXCEPT ![w] = <<>>]
    /\ seen' = seen \cup {<<Item(w).tenant, Item(w).msg.From>>}
    /\ UNCHANGED <<env, resolver, disk, cache, sessions, queue, fin, fout>>

\* a.sessions.Set(sessKey, UserSession{State: "MENU"}) for a new user.
SessInit(w) ==
    /\ pc[w] = "sessInit"
    /\ sessions' = MapPut(sessions, cur[w].sessKey, Session("MENU"))
    /\ pc' = [pc EXCEPT ![w] = "process"]
    /\ UNCHANGED <<env, resolver, disk, cache, queue, cur, out, seen, fin, fout>>

\* NewWhatsAppClient, then processMessage up to its cache lookup.
Process(w) ==
    /\ pc[w] = "process"
    /\ IF NewWhatsAppClient(Item(w).phoneID).err # Nil
       THEN Advance(w) /\ UNCHANGED cur
       ELSE IF Item(w).tenant \in DOMAIN cache
       THEN /\ cur' = [cur EXCEPT ![w].cfg = Ptr(cache[Item(w).tenant]),
                                  ![w].dec = Ptr(decide(cache[Item(w).tenant], cur[w].sess,
                                                        Item(w).msg))]
            /\ pc' = [pc EXCEPT ![w] = "sessSet"]
            /\ UNCHANGED queue
       ELSE /\ pc' = [pc EXCEPT ![w] = "load"]
            /\ UNCHANGED <<queue, cur>>
    /\ UNCHANGED <<env, resolver, disk, cache, sessions, out, seen, fin, fout>>

\* processMessage: loadFlowConfig on a cache miss, and the return of its
\* error to handleMessage.
Load(w) ==
    /\ pc[w] = "load"
    /\ \E order \in RangeOrders(DOMAIN disk[Item(w).tenant].cfg.States) :
         LET loaded == loadFlowConfig(Item(w).tenant, order)
         IN  IF loaded.err # Nil
             THEN /\ cur' = [cur EXCEPT ![w].file = Ptr(disk[Item(w).tenant]),
                                        ![w].dec =
                                Ptr([next |-> "", handled |-> FALSE, err |-> loaded.err])]
                  /\ pc' = [pc EXCEPT ![w] = "errReply"]
             ELSE /\ cur' = [cur EXCEPT ![w].file = Ptr(disk[Item(w).tenant]),
                                        ![w].cfg = Ptr(loaded.cfg)]
                  /\ pc' = [pc EXCEPT ![w] = "cacheSet"]
    /\ UNCHANGED <<env, resolver, disk, cache, sessions, queue, out, seen, fin, fout>>

\* An error reply after which the handler returns: the messages left in the
\* delivery are dropped.
ErrReplyAndAbort(w) ==
    /\ pc[w] = "errReply"
    /\ \E ok \in BOOLEAN :
         LET wa == Deref(NewWhatsAppClient(Item(w).phoneID).client)
         IN  out' = [out EXCEPT ![w] =
                        out[w] \o sendText(wa, Item(w).msg.From, ErrorReply, ok).sends]
    /\ queue' = [queue EXCEPT ![w] = <<>>]
    /\ pc' = [pc EXCEPT ![w] = "done"]
    /\ UNCHANGED <<env, resolver, disk, cache, sessions, cur, seen, fin, fout>>

\* _ = waClient.sendText(waID, "Perdón, hubo un error. Probá de nuevo."); continue
ErrReply(w) ==
    /\ pc[w] = "errReply"
    /\ \E ok \in BOOLEAN :
         LET wa == Deref(NewWhatsAppClient(Item(w).phoneID).client)
         IN  out' = [out EXCEPT ![w] =
                        out[w] \o sendText(wa, Item(w).msg.From, ErrorReply, ok).sends]
    /\ Advance(w)
    /\ UNCHANGED <<env, resolver, disk, cache, sessions, cur, seen, fin, fout>>

\* A Set that keeps the definition another caller has cached meanwhile.
CacheSetIfAbsent(w) ==
    /\ pc[w] = "cacheSet"
    /\ cache' = IF Item(w).tenant \in DOMAIN cache THEN cache
                ELSE MapPut(cache, Item(w).tenant, Deref(cur[w].cfg))
    /\ cur' = [cur EXCEPT ![w].dec = Ptr(decide(Deref(cur[w].cfg), cur[w].sess, Item(w).msg))]
    /\ pc' = [pc EXCEPT ![w] = "sessSet"]
    /\ UNCHANGED <<env, resolver, disk, sessions, queue, out, seen, fin, fout>>

\* processMessage: a.cache.Set(tenant, loaded), then the decision.
CacheSet(w) ==
    /\ pc[w] = "cacheSet"
    /\ cache' = MapPut(cache, Item(w).tenant, Deref(cur[w].cfg))
    /\ cur' = [cur EXCEPT ![w].dec = Ptr(decide(Deref(cur[w].cfg), cur[w].sess, Item(w).msg))]
    /\ pc' = [pc EXCEPT ![w] = "sessSet"]
    /\ UNCHANGED <<env, resolver, disk, sessions, queue, out, seen, fin, fout>>

\* if !handled { nextState = "MENU" }
\* An unhandled message leaves the session in the state it held.
NextStateKept(dec, sess) == IF ~dec.handled THEN sess ELSE dec.next

NextStateOf(dec, sess) == IF ~dec.handled THEN "MENU" ELSE dec.next

\* A Set that gives way when the session is no longer in the state read.
SessSetIfUnread(w) ==
    /\ pc[w] = "sessSet"
    /\ LET nextState == NextStateOf(Deref(cur[w].dec), cur[w].sess)
       IN  /\ sessions' = IF sessions[cur[w].sessKey].State = cur[w].sess
                          THEN MapPut(sessions, cur[w].sessKey, Session(nextState))
                          ELSE sessions
           /\ cur' = [cur EXCEPT ![w].nextState = nextState]
    /\ pc' = [pc EXCEPT ![w] = "render"]
    /\ UNCHANGED <<env, resolver, disk, cache, queue, out, seen, fin, fout>>

\* a.sessions.Set(sessKey, UserSession{State: nextState})
SessSet(w) ==
    /\ pc[w] = "sessSet"
    /\ LET nextState == NextStateOf(Deref(cur[w].dec), cur[w].sess)
       IN  /\ sessions' = MapPut(sessions, cur[w].sessKey, Session(nextState))
           /\ cur' = [cur EXCEPT ![w].nextState = nextState]
    /\ pc' = [pc EXCEPT ![w] = "render"]
    /\ UNCHANGED <<env, resolver, disk, cache, queue, out, seen, fin, fout>>

\* RenderAndSend: r.cache.Get(tenant) and, on a miss, loadFlowConfig and
\* r.cache.Set.  processMessage has cached the tenant's definition before the
\* dispatcher gets here and no entry is ever removed, so the Get hits.
RenderGet(w) ==
    /\ pc[w] = "render"
    /\ IF Item(w).tenant \in DOMAIN cache
       THEN /\ cur' = [cur EXCEPT ![w].rcfg = Ptr(cache[Item(w).tenant])]
            /\ pc' = [pc EXCEPT ![w] = "renderSend"]
            /\ UNCHANGED cache
       ELSE \E order \in RangeOrders(DOMAIN disk[Item(w).tenant].cfg.States) :
              LET loaded == loadFlowConfig(Item(w).tenant, order)
              IN  IF loaded.err # Nil
                  THEN /\ cur' = [cur EXCEPT ![w].render =
                                     Ptr([state |-> cur[w].nextState, err |-> loaded.err,
                                          sends |-> <<>>])]
                       /\ pc' = [pc EXCEPT ![w] = "fallback"]
                       /\ UNCHANGED cache
                  ELSE /\ cache' = MapPut(cache, Item(w).tenant, loaded.cfg)
                       /\ cur' = [cur EXCEPT ![w].rcfg = Ptr(loaded.cfg)]
                       /\ pc' = [pc EXCEPT ![w] = "renderSend"]
    /\ UNCHANGED <<env, resolver, disk, sessions, queue, out, seen, fin, fout>>

\* RenderAndSend from the lookup of the state on: the switch and its one
\* request to Meta; an error goes back to handleMessage.
RenderSend(w) ==
    /\ pc[w] = "renderSend"
    /\ LET vs == MapPut(EmptyMap, NameKey, Item(w).name)
           wa == Deref(NewWhatsAppClient(Item(w).phoneID).client)
           st == cur[w].nextState
       IN  \E ok \in BOOLEAN,
              orders \in IF st \in DOMAIN cur[w].rcfg[1].States
                         THEN StateOrders(cur[w].rcfg[1].States[st], vs) ELSE {<<>>} :
             LET r == renderState(Deref(cur[w].rcfg), st, wa, Item(w).msg.From, vs, orders, ok)
             IN  /\ r.sends = <<>> => ok
                 /\ cur' = [cur EXCEPT ![w].render = Ptr([state |-> st, err |-> r.err,
                                                        sends |-> r.sends])]
                 /\ out' = [out EXCEPT ![w] = out[w] \o r.sends]
                 /\ IF r.err # Nil
                    THEN pc' = [pc EXCEPT ![w] = "fallback"] /\ UNCHANGED queue
                    ELSE Advance(w)
    /\ UNCHANGED <<env, resolver, disk, cache, sessions, seen, fin, fout>>

\* A fallback reply that puts the session back into the state it was read in.
FallbackAndRollback(w) ==
    /\ pc[w] = "fallback"
    /\ \E ok \in BOOLEAN :
         LET wa == Deref(NewWhatsAppClient(Item(w).phoneID).client)
         IN  out' = [out EXCEPT ![w] =
                        out[w] \o sendText(wa, Item(w).msg.From, MenuErrorReply, ok).sends]
    /\ sessions' = MapPut(sessions, cur[w].sessKey, Session(cur[w].sess))
    /\ Advance(w)
    /\ UNCHANGED <<env, resolver, disk, cache, cur, seen, fin, fout>>

\* _ = waClient.sendText(waID, "Perdón, hubo un problema mostrando el menú.")
Fallback(w) ==
    /\ pc[w] = "fallback"
    /\ \E ok \in BOOLEAN :
         LET wa == Deref(NewWhatsAppClient(Item(w).phoneID).client)
         IN  out' = [out EXCEPT ![w] =
                        out[w] \o sendText(wa, Item(w).msg.From, MenuErrorReply, ok).sends]
    /\ Advance(w)
    /\ UNCHANGED <<env, resolver, disk, cache, sessions, cur, seen, fin, fout>>

\* w.WriteHeader(http.StatusOK): the handler returns and its locals are gone.
Respond(w) ==
    /\ pc[w] = "done"
    /\ pc' = [pc EXCEPT ![w] = "idle"]
    /\ cur' = [cur EXCEPT ![w] = NoCur]
    /\ out' = [out EXCEPT ![w] = <<>>]
    /\ UNCHANGED <<env, resolver, disk, cache, sessions, queue, seen, fin, fout>>

\* Somebody rewrites configs/<tenant>/flow.json; loadFlowConfig reads the
\* file anew on every cache miss.
EditConfig(tenant, file) ==
    /\ disk[tenant] # file
    /\ disk' = [disk EXCEPT ![tenant] = file]
    /\ UNCHANGED <<env, resolver, cache, sessions, pc, queue, cur, out, seen, fin, fout>>

-----------------------------------------------------------------------------
(* package time.  An instant is a number of ticks since 00:00 UTC of the    *)
(* Sunday the model counts days from, TicksPerSecond ticks to the second;   *)
(* every zone the code can run in keeps one offset all year.  A time.Time   *)
(* is [t, z]: the instant and its zone's offset from UTC in hours.  A       *)
(* timestamp text in RFC 3339 form is <<day, hour, minute, second, fraction,*)
(* offset>>, the date written as the day number and the fraction of a       *)
(* second in ticks; any other value stands for a text that is not in that   *)
(* form.                                                                    *)

TicksPerSecond == 2

Second == TicksPerSecond

Minute == 60 * Second

Hour == 60 * Minute

Day == 24 * Hour

BuenosAires == 0 - 3

LocalZone == 0

Time(t, z) == [t |-> t, z |-> z]

ZeroTime == Time(0, 0)

Before(a, b) == a.t < b.t

After(a, b) == a.t > b.t

Add(a, d) == Time(a.t + d, a.z)

In(a, z) == Time(a.t, z)

Wall(a) == a.t + a.z * Hour

AddDate(a, days) == Add(a, days * Day)

DayOf(a) == Wall(a) \div Day

Weekday(a) == DayOf(a) % 7

Date(day, h, z) == Time(day * Day + h * Hour - z * Hour, z)

\* t.Format(time.RFC3339): the fraction of a second is not written.
Format(a) ==
    LET w == Wall(a)
    IN  <<w \div Day, (w % Day) \div Hour, (w % Hour) \div Minute, (w % Minute) \div Second,
          0, a.z>>

IsRFC3339(x) ==
    /\ Len(x) = 6
    /\ x[1] \in Nat /\ x[2] \in 0..23 /\ x[3] \in 0..59 /\ x[4] \in 0..59
    /\ x[5] \in 0..(Second - 1) /\ x[6] \in -23..23

\* time.Parse(time.RFC3339, x): [time, err]; a fraction of a second is read
\* although the layout has none.
Parse(x) ==
    IF IsRFC3339(x)
    THEN [time |-> Time(x[1] * Day + x[2] * Hour + x[3] * Minute + x[4] * Second + x[5]
                            - x[6] * Hour, x[6]),
          err  |-> Nil]
    ELSE [time |-> ZeroTime, err |-> Ptr("parsing time")]

Digits == <<"0", "1", "2", "3", "4", "5", "6", "7", "8", "9">>

\* fmt.Sprintf("%d", n) for n >= 0
RECURSIVE Itoa(_)
Itoa(n) == IF n < 10 THEN Digits[n + 1] ELSE Itoa(n \div 10) \o Digits[(n % 10) + 1]

-----------------------------------------------------------------------------
(* Calendar service (calendar.go).  The file configs/<tenant>/calendar.json *)
(* is [kind, doc]: kind "missing", "unreadable", "badjson" or "json", doc   *)
(* the decoded object, a field that the text does not have being Nil.  The  *)
(* Google calendar is the sequence of its busy intervals <<start, end>>,    *)
(* in instants, ordered and apart.                                         *)

DefaultStartHour == 9

DefaultEndHour == 17

DefaultWorkDays == <<1, 2, 3, 4, 5>>

MaxHour == 24

QueryDays == 7

ScanDays == 10

MaxSlots == 3

CalError(kind) == Ptr([kind |-> kind])

NoService == [calID |-> <<>>, StartHour |-> 0, EndHour |-> 0, WorkDays |-> <<>>]

\* json.Unmarshal(b, &cfg): a field of the text overwrites the field of cfg.
Unmarshal(doc, cfg) ==
    [CalendarID |-> IF doc.calendar_id = Nil THEN cfg.CalendarID ELSE Deref(doc.calendar_id),
     StartHour  |-> IF doc.start_hour = Nil THEN cfg.StartHour ELSE Deref(doc.start_hour),
     EndHour    |-> IF doc.end_hour = Nil THEN cfg.EndHour ELSE Deref(doc.end_hour),
     WorkDays   |-> IF doc.work_days = Nil THEN cfg.WorkDays ELSE Deref(doc.work_days)]

\* The validations of NewCalendarService on the decoded configuration.
Validated(cfg) ==
    [cfg EXCEPT !.StartHour = IF cfg.StartHour < 0 THEN DefaultStartHour ELSE cfg.StartHour,
                !.EndHour   = IF cfg.EndHour > MaxHour THEN DefaultEndHour ELSE cfg.EndHour,
                !.WorkDays  = IF Len(cfg.WorkDays) = 0 THEN DefaultWorkDays ELSE cfg.WorkDays]

\* NewCalendarService(tenant) with the tenant's calendar.json being file and
\* clientOk telling whether the Google client can be created: [svc, err].
NewCalendarService(tenant, file, clientOk) ==
    LET defaults == [CalendarID |-> <<>>, StartHour |-> DefaultStartHour,
                     EndHour |-> DefaultEndHour, WorkDays |-> DefaultWorkDays]
        cfg      == IF file.kind = "json" THEN Unmarshal(file.doc, defaults)
                    ELSE [defaults EXCEPT !.CalendarID = Getenv("GOOGLE_CALENDAR_ID")]
        ok       == Validated(cfg)
    IN  IF Getenv("GOOGLE_APPLICATION_CREDENTIALS") = <<>>
        THEN [svc |-> NoService, err |-> CalError("credentials")]
        ELSE IF file.kind = "unreadable" THEN [svc |-> NoService, err |-> CalError("read")]
        ELSE IF file.kind = "badjson" THEN [svc |-> NoService, err |-> CalError("json")]
        ELSE IF cfg.CalendarID = <<>>
        THEN [svc |-> NoService, err |-> CalError("calendar_id")]
        ELSE IF ~clientOk THEN [svc |-> NoService, err |-> CalError("client")]
        ELSE [svc |-> [calID |-> ok.CalendarID, StartHour |-> ok.StartHour,
                       EndHour |-> ok.EndHour, WorkDays |-> ok.WorkDays],
              err |-> Nil]

\* The text the calendar service writes for an instant, in UTC.
Stamp(t) ==
    <<t \div Day, (t % Day) \div Hour, (t % Hour) \div Minute, (t % Minute) \div Second,
      t % Second, 0>>

\* Freebusy.Query: the busy intervals of the calendar that meet the window
\* [timeMin, timeMax), cut to it.
FreeBusy(calendar, timeMin, timeMax) ==
    LET lo       == Parse(timeMin).time.t
        hi       == Parse(timeMax).time.t
        Meets(b) == b[1] < hi /\ b[2] > lo
        met      == SelectSeq(calendar, Meets)
    IN  [i \in 1..Len(met) |->
            [Start |-> Stamp(IF met[i][1] < lo THEN lo ELSE met[i][1]),
             End   |-> Stamp(IF met[i][2] > hi THEN hi ELSE met[i][2])]]

IsWorkingDay(c, weekday) == \E i \in 1..Len(c.WorkDays) : c.WorkDays[i] = weekday

\* The intersection test on closed intervals.
IsBusyClosed(slotStart, slotEnd, busyRanges) ==
    \E i \in 1..Len(busyRanges) :
        LET bStart == Parse(busyRanges[i].Start).time
            bEnd   == Parse(busyRanges[i].End).time
        IN  ~After(slotStart, bEnd) /\ ~Before(slotEnd, bStart)

IsBusy(slotStart, slotEnd, busyRanges) ==
    \E i \in 1..Len(busyRanges) :
        LET bStart == Parse(busyRanges[i].Start).time
            bEnd   == Parse(busyRanges[i].End).time
        IN  Before(slotStart, bEnd) /\ After(slotEnd, bStart)

\* slotStart.Format("Mon 02") and slotStart.Format("15:04")
SlotText(slotStart) ==
    <<Weekday(slotStart), DayOf(slotStart), (Wall(slotStart) % Day) \div Hour,
      (Wall(slotStart) % Hour) \div Minute>>

NewSlot(counter, slotStart) ==
    [ID |-> "SLOT_" \o Itoa(counter), Text |-> SlotText(slotStart), ISOValue |-> Format(slotStart)]

FirstCounter == 1

\* The loop over the hours without the check that 3 slots are collected.
RECURSIVE ScanHoursWholeDay(_, _, _, _, _, _)
ScanHoursWholeDay(c, now, day, h, busyRanges, acc) ==
    IF h >= c.EndHour THEN acc
    ELSE LET slotStart == Date(DayOf(day), h, now.z)
             slotEnd   == Add(slotStart, Hour)
         IN  IF Before(slotStart, now) \/ IsBusy(slotStart, slotEnd, busyRanges)
             THEN ScanHoursWholeDay(c, now, day, h + 1, busyRanges, acc)
             ELSE ScanHoursWholeDay(c, now, day, h + 1, busyRanges,
                                    [slots   |-> Append(acc.slots, NewSlot(acc.counter, slotStart)),
                                     counter |-> acc.counter + 1])

\* The loop over the hours of one day; acc is [slots, counter].
RECURSIVE ScanHours(_, _, _, _, _, _)
ScanHours(c, now, day, h, busyRanges, acc) ==
    IF h >= c.EndHour \/ Len(acc.slots) >= MaxSlots THEN acc
    ELSE LET slotStart == Date(DayOf(day), h, now.z)
             slotEnd   == Add(slotStart, Hour)
         IN  IF Before(slotStart, now) \/ IsBusy(slotStart, slotEnd, busyRanges)
             THEN ScanHours(c, now, day, h + 1, busyRanges, acc)
             ELSE ScanHours(c, now, day, h + 1, busyRanges,
                            [slots   |-> Append(acc.slots, NewSlot(acc.counter, slotStart)),
                             counter |-> acc.counter + 1])

\* The loop over the days.
RECURSIVE ScanDaysFrom(_, _, _, _, _)
ScanDaysFrom(c, now, d, busyRanges, acc) ==
    IF d >= ScanDays \/ Len(acc.slots) >= MaxSlots THEN acc
    ELSE LET day == AddDate(now, d)
         IN  IF ~IsWorkingDay(c, Weekday(day))
             THEN ScanDaysFrom(c, now, d + 1, busyRanges, acc)
             ELSE ScanDaysFrom(c, now, d + 1, busyRanges,
                               ScanHours(c, now, day, c.StartHour, busyRanges, acc))

\* c.GetNextAvailableSlots() when the clock reads clock, zoneOk tells whether
\* the zone of Buenos Aires loads and queryOk whether the query succeeds:
\* [slots, err, query].
GetNextAvailableSlots(c, clock, zoneOk, calendar, queryOk) ==
    LET now     == In(Time(clock, 0), IF zoneOk THEN BuenosAires ELSE LocalZone)
        minTime == Format(now)
        maxTime == Format(Add(now, QueryDays * Day))
        query   == [TimeMin |-> minTime, TimeMax |-> maxTime, Id |-> c.calID]
        busy    == FreeBusy(calendar, minTime, maxTime)
    IN  IF ~queryOk THEN [slots |-> <<>>, err |-> CalError("query"), query |-> query]
        ELSE [slots |-> ScanDaysFrom(c, now, 0, busy,
                                     [slots |-> <<>>, counter |-> FirstCounter]).slots,
              err   |-> Nil,
              query |-> query]

SummaryPrefix == <<"T", "u", "r", "n", "o", " ", "F", "l", "o", "w", "l", "y", ":", " ">>

DescPrefix ==
    <<"P", "a", "c", "i", "e", "n", "t", "e", " ", "a", "g", "e", "n", "d", "a", "d", "o", " ", "v", "í", "a", " ", "W", "h", "a", "t", "s", "A", "p", "p", ".", "\n", "T", "e", "l", "é", "f", "o", "n", "o", ":", " ">>

\* The booking with the parse error dropped, as it is for busy intervals.
CreateAppointmentUnchecked(c, isoStart, contactName, contactPhone, insertOk) ==
    LET startTime == Parse(isoStart).time
        endTime   == Add(startTime, Hour)
        event     == [Summary     |-> SummaryPrefix \o contactName,
                      Description |-> DescPrefix \o contactPhone,
                      Start       |-> Format(startTime),
                      End         |-> Format(endTime)]
    IN  [err     |-> IF insertOk THEN Nil ELSE CalError("insert"),
         inserts |-> <<[calID |-> c.calID, event |-> event]>>]

\* c.CreateAppointment(isoStart, contactName, contactPhone), insertOk telling
\* whether the insert succeeds: [err, inserts], inserts the insert requests
\* made.
CreateAppointment(c, isoStart, contactName, contactPhone, insertOk) ==
    LET parsed    == Parse(isoStart)
        startTime == parsed.time
        endTime   == Add(startTime, Hour)
        event     == [Summary     |-> SummaryPrefix \o contactName,
                      Description |-> DescPrefix \o contactPhone,
                      Start       |-> Format(startTime),
                      End         |-> Format(endTime)]
    IN  IF parsed.err # Nil THEN [err |-> CalError("fecha"), inserts |-> <<>>]
        ELSE [err     |-> IF insertOk THEN Nil ELSE CalError("insert"),
              inserts |-> <<[calID |-> c.calID, event |-> event]>>]

-----------------------------------------------------------------------------
(* The inputs the model is run on *)

MaxMsgs == 2

TenantT == <<"t">>

TenantT549 == <<"t", ":", "5", "4", "9">>

Tenants == {TenantT, TenantT549}

Phone1 == <<"1">>

Phone2 == <<"2">>

User7 == <<"7">>

User5497 == <<"5", "4", "9", ":", "7">>

\* TENANT_BY_PHONE_NUMBER_ID=1:t, ,x,2:t:549
EnvDev ==
    [APP_ENV                   |-> <<>>,
     WHATSAPP_TOKEN            |-> <<"E", "A", "A", "M">>,
     WHATSAPP_FORCE_TO         |-> <<>>,
     TENANT_BY_PHONE_NUMBER_ID |-> <<"1", ":", "t", ",", " ", ",", "x", ",", "2", ":", "t", ":", "5", "4", "9">>,
     DEFAULT_TENANT            |-> <<>>,
     GOOGLE_APPLICATION_CREDENTIALS |-> <<"k", "e", "y", ".", "j", "s", "o", "n">>,
     GOOGLE_CALENDAR_ID        |-> <<>>]

\* No WHATSAPP_TOKEN; phone number id 2 resolves to the default tenant.
EnvNoToken ==
    [EnvDev EXCEPT !.WHATSAPP_TOKEN = <<>>,
                   !.TENANT_BY_PHONE_NUMBER_ID = <<"1", ":", "t">>,
                   !.DEFAULT_TENANT = TenantT549]

EnvProd == [EnvDev EXCEPT !.APP_ENV = <<" ", "p", "r", "o", "d", " ">>, !.WHATSAPP_FORCE_TO = <<"+", "5", "4", "9", "1", "1", "5", "5">>]

EnvForce == [EnvDev EXCEPT !.APP_ENV = <<"d", "e", "v">>, !.WHATSAPP_FORCE_TO = <<"+", "5", "4", "9", "1", "1", "5", "5">>]

Row(id, title, desc) == [ID |-> id, Title |-> title, Description |-> desc]

TextState(body, onText, onSelect) ==
    [Type |-> "text", Body |-> body, List |-> Nil,
     OnTextNext |-> onText, OnSelectNext |-> onSelect]

ListState(body, list, onText, onSelect) ==
    [Type |-> "interactive_list", Body |-> body, List |-> list,
     OnTextNext |-> onText, OnSelectNext |-> onSelect]

MenuList ==
    [Header     |-> <<"M", "e", "n", "ú", " ", "{", "{", "n", "a", "m", "e", "}", "}">>,
     ButtonText |-> <<"V", "e", "r">>,
     Footer     |-> <<" ">>,
     Sections   |-> <<[Title |-> <<"O", "p", "c", "i", "o", "n", "e", "s">>,
                       Rows  |-> <<Row("r1", <<"I", "n", "f", "o">>, <<>>),
                                   Row("r2", <<"N", "a", "d", "a">>, <<" ">>),
                                   Row("r3", <<"T", "u", "r", "n", "o", " ", "{", "{", "n", "a", "m", "e", "}", "}">>, <<"P", "e", "d", "i", "r", " ", "t", "u", "r", "n", "o">>)>>]>>]

\* r2 maps to the empty state name and r3 to a state the flow does not hold.
FlowA ==
    [Version |-> "1",
     States  |-> [MENU |-> ListState(<<"H", "o", "l", "a", " ", "{", "{", "n", "a", "m", "e", "}", "}">>, Ptr(MenuList), "",
                                     [r1 |-> "INFO", r2 |-> "", r3 |-> "GHOST"]),
                  INFO |-> TextState(<<"I", "n", "f", "o", " ", "{", "{", "x", "}", "}">>, "BYE", EmptyMap),
                  BYE  |-> TextState(<<"C", "h", "a", "u">>, "", EmptyMap)]]

\* A flow without a MENU state.
FlowB ==
    [Version |-> "2",
     States  |-> [START |-> TextState(<<"B", "i", "e", "n", "v", "e", "n", "i", "d", "o">>, "NEXT", [ok |-> "START"]),
                  NEXT  |-> ListState(<<" ">>, Ptr([MenuList EXCEPT !.Header = <<>>]), "",
                                      [r1 |-> "START"]),
                  VIDEO |-> [TextState(<<>>, "", EmptyMap) EXCEPT !.Type = "video"],
                  BARE  |-> ListState(<<"H", "o", "l", "a", " ", "{", "{", "n", "a", "m", "e", "}", "}">>, Nil, "START", EmptyMap)]]

\* A flow whose MENU header is one rune too long.
FlowBad ==
    [FlowA EXCEPT !.States.MENU.List = Ptr([MenuList EXCEPT !.Header = Rep("h", HeaderMax + 1)])]

FileMissing == [kind |-> "missing", cfg |-> NoConfig]

FileBadJson == [kind |-> "badjson", cfg |-> NoConfig]

FileNoStates == [kind |-> "json", cfg |-> NoConfig]

FileBad == [kind |-> "json", cfg |-> FlowBad]

FileA == [kind |-> "json", cfg |-> FlowA]

FileB == [kind |-> "json", cfg |-> FlowB]

TextMsg(from, body) ==
    [From |-> from, Type |-> "text", Text |-> Ptr(body), Interactive |-> Nil]

ReplyMsg(from, kind, list, button) ==
    [From |-> from, Type |-> "interactive", Text |-> Nil,
     Interactive |-> Ptr([Type |-> kind, ButtonReply |-> button, ListReply |-> list])]

ListReplyMsg(from, id) == ReplyMsg(from, "list_reply", Ptr(id), Nil)

ButtonReplyMsg(from, id) == ReplyMsg(from, "button_reply", Nil, Ptr(id))

OtherMsg(from, type) == [From |-> from, Type |-> type, Text |-> Nil, Interactive |-> Nil]

Change(phoneID, contacts, msgs) ==
    [PhoneNumberID |-> phoneID, Contacts |-> contacts, Messages |-> msgs]

\* Sequences over S of length 1..n.
SeqsUpTo(S, n) == UNION {[1..k -> S] : k \in 1..n}

-----------------------------------------------------------------------------
(* The dispatcher, one delivery at a time *)

SeqWorkers == {1}

Users == {User7, User5497}

\* The contacts block Meta sends along with a sender's messages.
ContactsOf(u) == IF u = User7 THEN <<<<" ", "A", "n", "a", " ">>>> ELSE <<>>

MainMsgs(u) ==
    {TextMsg(u, <<"h", "o", "l", "a">>), TextMsg(u, <<" ", "M", "e", "N", "u", "\n">>), ListReplyMsg(u, "r1"), ListReplyMsg(u, "r3")}

BatchMsgs == {TextMsg(User7, <<"h", "o", "l", "a">>), ListReplyMsg(User7, "r1")}

\* Every sender's single messages on both phone numbers, and the batches of
\* up to MaxMsgs messages of one sender.
MainChanges ==
    UNION {{Change(p, ContactsOf(u), <<m>>) : p \in {Phone1, Phone2}, m \in MainMsgs(u)} :
              u \in Users}
    \cup {Change(Phone1, ContactsOf(User7), ms) : ms \in SeqsUpTo(BatchMsgs, MaxMsgs)}

MainFiles == {FileBad, FileA}

InitApp(e, d) ==
    /\ env = e
    /\ resolver = NewTenantResolver(e.TENANT_BY_PHONE_NUMBER_ID, e.DEFAULT_TENANT)
    /\ disk = d
    /\ cache = EmptyMap
    /\ sessions = EmptyMap
    /\ pc = [w \in Workers |-> "idle"]
    /\ queue = [w \in Workers |-> <<>>]
    /\ cur = [w \in Workers |-> NoCur]
    /\ out = [w \in Workers |-> <<>>]
    /\ seen = {}

Init ==
    /\ \E e \in {EnvDev, EnvNoToken}, d \in [Tenants -> MainFiles] : InitApp(e, d)
    /\ fin = Nil
    /\ fout = Nil

Next ==
    \/ \E w \in SeqWorkers, ch \in MainChanges : Deliver(w, <<ch>>)
    \/ \E w \in SeqWorkers : SessGet(w)
    \/ \E w \in SeqWorkers : SessInit(w)
    \/ \E w \in SeqWorkers : Process(w)
    \/ \E w \in SeqWorkers : Load(w)
    \/ \E w \in SeqWorkers : ErrReply(w)
    \/ \E w \in SeqWorkers : CacheSet(w)
    \/ \E w \in SeqWorkers : SessSet(w)
    \/ \E w \in SeqWorkers : RenderGet(w)
    \/ \E w \in SeqWorkers : RenderSend(w)
    \/ \E w \in SeqWorkers : Fallback(w)
    \/ \E w \in SeqWorkers : Respond(w)
    \/ \E t \in Tenants, f \in MainFiles : EditConfig(t, f)

Spec == Init /\ [][Next]_vars

-----------------------------------------------------------------------------
(* Concurrent deliveries: two workers, one tenant, one user *)

ConcMsgs == {TextMsg(User7, <<"h", "o", "l", "a">>), ListReplyMsg(User7, "r1")}

ConcChanges == {Change(Phone1, ContactsOf(User7), <<m>>) : m \in ConcMsgs}

ConcFiles == {FileBad, FileA, FileB}

InitConc ==
    /\ \E f \in ConcFiles : InitApp(EnvDev, [t \in Tenants |-> IF t = TenantT THEN f ELSE FileA])
    /\ fin = Nil
    /\ fout = Nil

NextConc ==
    \/ \E w \in Workers, ch \in ConcChanges : Deliver(w, <<ch>>)
    \/ \E w \in Workers : SessGet(w)
    \/ \E w \in Workers : SessInit(w)
    \/ \E w \in Workers : Process(w)
    \/ \E w \in Workers : Load(w)
    \/ \E w \in Workers : ErrReply(w)
    \/ \E w \in Workers : CacheSet(w)
    \/ \E w \in Workers : SessSet(w)
    \/ \E w \in Workers : RenderGet(w)
    \/ \E w \in Workers : RenderSend(w)
    \/ \E w \in Workers : Fallback(w)
    \/ \E w \in Workers : Respond(w)
    \/ \E f \in ConcFiles : EditConfig(TenantT, f)

SpecConc == InitConc /\ [][NextConc]_vars

-----------------------------------------------------------------------------
(* Single calls: the arguments are drawn in the initial state, the call is  *)
(* the only step.                                                           *)

InitCall(e, d, c) ==
    /\ env = e
    /\ resolver = NewTenantResolver(e.TENANT_BY_PHONE_NUMBER_ID, e.DEFAULT_TENANT)
    /\ disk = d
    /\ cache = c
    /\ sessions = EmptyMap
    /\ pc = [w \in Workers |-> "idle"]
    /\ queue = [w \in Workers |-> <<>>]
    /\ cur = [w \in Workers |-> NoCur]
    /\ out = [w \in Workers |-> <<>>]
    /\ seen = {}
    /\ fout = Nil

DiskOf(f) == [t \in Tenants |-> IF t = TenantT THEN f ELSE FileMissing]

CachedFlows == {EmptyMap, MapPut(EmptyMap, TenantT, FlowA), MapPut(EmptyMap, TenantT, FlowB)}

(* processMessage *)

TextBodies ==
    {<<"m", "e", "n", "u">>, <<" ", "M", "e", "N", "u", "\n">>, <<"M", "E", "N", "U">>, <<"\t", "m", "e", "n", "u", " ">>, <<"h", "o", "l", "a">>, <<"m", "e", "n", "u", "s">>, <<"m", "e", " ", "n", "u">>, <<>>, <<" ">>,
     <<"\f", "m", "e", "n", "u">>, <<"M", "e", "n", "u", " ">>, <<"U+2003", "m", "e", "n", "u", "">>}

ReplyIds == {"r1", "r2", "r3", "ok", "zz", ""}

DecideMsgs ==
    {TextMsg(User7, b) : b \in TextBodies}
    \cup {ListReplyMsg(User7, id) : id \in ReplyIds}
    \cup {ButtonReplyMsg(User7, id) : id \in ReplyIds}
    \cup {OtherMsg(User7, "text"), OtherMsg(User7, "interactive"), OtherMsg(User7, "image"),
          ReplyMsg(User7, "list_reply", Nil, Ptr("r1")),
          ReplyMsg(User7, "button_reply", Ptr("r1"), Nil),
          ReplyMsg(User7, "nfm_reply", Ptr("r1"), Ptr("r1"))}

DecideStates == {"MENU", "INFO", "GHOST", "START", "NEXT", "BARE", ""}

DecideFiles == {FileA, FileB, FileBad, FileMissing, FileBadJson, FileNoStates}

InitDecide ==
    /\ \E f \in DecideFiles, c \in CachedFlows : InitCall(EnvDev, DiskOf(f), c)
    /\ fin \in {Ptr([tenant |-> TenantT, state |-> st, msg |-> m]) :
                   st \in DecideStates, m \in DecideMsgs}

CallProcessMessage ==
    /\ fin # Nil /\ fout = Nil
    /\ \E order \in RangeOrders(DOMAIN disk[fin[1].tenant].cfg.States) :
         LET r == processMessage(fin[1].tenant, fin[1].state, fin[1].msg, order)
         IN  /\ cache' = r.cache
             /\ fout' = Ptr([next |-> r.next, handled |-> r.handled, err |-> r.err])
    /\ UNCHANGED <<env, resolver, disk, sessions, pc, queue, cur, out, seen, fin>>

NextDecide == CallProcessMessage

SpecDecide == InitDecide /\ [][NextDecide]_vars

(* loadFlowConfig *)

AtLimit(n) == <<"ñ">> \o Rep("x", n - 1)

Over(n) == Rep("x", n + 1)

Either(n) == {AtLimit(n), Over(n)}

\* States beside the one under test: a text state that carries a list with
\* an over-long header, a list state without list, a list state with a
\* header and a section title too long.
OtherStates ==
    {[TextState(<<>>, "", EmptyMap) EXCEPT !.List = Ptr([MenuList EXCEPT !.Header = Over(HeaderMax)])],
     ListState(<<>>, Nil, "", EmptyMap),
     ListState(<<>>, Ptr([Header |-> Over(HeaderMax), ButtonText |-> <<>>, Footer |-> <<>>,
                          Sections |-> <<[Title |-> <<>>, Rows |-> <<>>],
                                         [Title |-> Over(SectionTitleMax), Rows |-> <<>>]>>]),
               "", EmptyMap)}

ValidateFlows ==
    {[Version |-> "1",
      States  |-> [MENU  |-> ListState(<<>>,
                                Ptr([Header |-> h, ButtonText |-> b, Footer |-> f,
                                     Sections |-> <<[Title |-> t,
                                                     Rows  |-> <<Row(id, rt, rd),
                                                                 Row("r9", rt, <<>>)>>]>>]),
                                "", EmptyMap),
                   EXTRA |-> o]] :
        h \in Either(HeaderMax), f \in Either(FooterMax), b \in Either(ButtonTextMax),
        t \in Either(SectionTitleMax), id \in {"", "r1"}, rt \in Either(RowTitleMax),
        rd \in Either(RowDescMax), o \in OtherStates}

ValidateFiles ==
    {[kind |-> "json", cfg |-> c] : c \in ValidateFlows}
    \cup {FileMissing, FileBadJson, FileNoStates, FileA, FileB}

InitValidate ==
    /\ \E f \in ValidateFiles : InitCall(EnvDev, DiskOf(f), EmptyMap)
    /\ fin = Ptr([tenant |-> TenantT])

CallLoadFlowConfig ==
    /\ fin # Nil /\ fout = Nil
    /\ \E order \in RangeOrders(DOMAIN disk[fin[1].tenant].cfg.States) :
         fout' = Ptr(loadFlowConfig(fin[1].tenant, order))
    /\ UNCHANGED <<env, resolver, disk, cache, sessions, pc, queue, cur, out, seen, fin>>

NextValidate == CallLoadFlowConfig

SpecValidate == InitValidate /\ [][NextValidate]_vars

(* RenderAndSend *)

RenderStates == {"MENU", "INFO", "GHOST", "START", "NEXT", "VIDEO", "BARE"}

RenderVars ==
    {EmptyMap, MapPut(EmptyMap, NameKey, <<"A", "n", "a">>)}

\* Two variables, one holding the placeholder of the other: the result
\* depends on the order of each range.
RenderVarsTwo ==
    MapPut(MapPut(EmptyMap, NameKey, <<"A", "n", "a">>), <<"x">>, <<"{", "{", "n", "a", "m", "e", "}", "}">>)

RenderFiles == {FileA, FileB, FileBad, FileMissing}

\* Every call with at most one variable, and the calls with two variables in
\* the dev environment.
InitRender ==
    /\ \E e \in {EnvDev, EnvProd, EnvForce}, f \in RenderFiles, c \in CachedFlows :
         /\ InitCall(e, DiskOf(f), c)
         /\ fin \in {Ptr([tenant |-> TenantT, state |-> st, to |-> u, vars |-> vs]) :
                        st \in RenderStates,
                        u \in {User7, <<" ", "+", "5", "4", "9", "1", "1", "5", "5">>},
                        vs \in RenderVars}
                    \cup {Ptr([tenant |-> TenantT, state |-> st, to |-> User7,
                               vars |-> RenderVarsTwo]) :
                             st \in IF e = EnvDev THEN RenderStates ELSE {}}

CallRenderAndSend ==
    /\ fin # Nil /\ fout = Nil
    /\ \E nd \in RenderChoices(fin[1].tenant, fin[1].state, fin[1].vars) :
         LET wa == Deref(NewWhatsAppClient(Phone1).client)
             r  == RenderAndSend(fin[1].tenant, fin[1].state, wa, fin[1].to, fin[1].vars, nd)
         IN  /\ cache' = r.cache
             /\ fout' = Ptr([err |-> r.err, sends |-> r.sends])
    /\ UNCHANGED <<env, resolver, disk, sessions, pc, queue, cur, out, seen, fin>>

NextRender == CallRenderAndSend

SpecRender == InitRender /\ [][NextRender]_vars

(* NewCalendarService, GetNextAvailableSlots, CreateAppointment *)

CalEnvs ==
    {[EnvDev EXCEPT !.GOOGLE_CALENDAR_ID = <<"e", "n", "v">>],
     [EnvDev EXCEPT !.GOOGLE_CALENDAR_ID = <<>>],
     [EnvDev EXCEPT !.GOOGLE_APPLICATION_CREDENTIALS = <<>>]}

CalDocs ==
    [calendar_id : {Nil, Ptr(<<>>), Ptr(<<"c", "a", "l">>)},
     start_hour  : {Nil, Ptr(0 - 1), Ptr(0), Ptr(MaxHour + 1)},
     end_hour    : {Nil, Ptr(0 - 1), Ptr(10), Ptr(MaxHour), Ptr(MaxHour + 1)},
     work_days   : {Nil, Ptr(<<>>), Ptr(<<3>>), Ptr(<<6, 0, 6>>)}]

NoDoc == [calendar_id |-> Nil, start_hour |-> Nil, end_hour |-> Nil, work_days |-> Nil]

CalFiles ==
    {[kind |-> k, doc |-> NoDoc] : k \in {"missing", "unreadable", "badjson"}}
    \cup {[kind |-> "json", doc |-> d] : d \in CalDocs}

\* The services NewCalendarService returns in the environment at hand.
Services ==
    {r.svc : r \in {x \in {NewCalendarService(TenantT, f, TRUE) : f \in CalFiles} : x.err = Nil}}

\* The instant at which the clocks of Buenos Aires read h:m plus extra ticks
\* on day d, day 0 being a Sunday.
At(d, h, m, extra) == d * Day + (h - BuenosAires) * Hour + m * Minute + extra

Clocks ==
    {At(1, 8, 0, 0), At(1, 9, 0, 0), At(1, 9, 0, 1), At(1, 10, 30, 0), At(1, 23, 30, 0),
     At(2, 10, 0, 0), At(5, 16, 30, 0), At(6, 12, 0, 0)}

Calendars ==
    {<<>>,
     <<<<At(1, 10, 0, 0), At(1, 11, 0, 0)>>>>,
     <<<<At(1, 9, 30, 0), At(1, 10, 0, 0)>>, <<At(1, 11, 0, 0), At(1, 12, 30, 0)>>>>,
     <<<<At(1, 0, 0, 0), At(12, 0, 0, 0)>>>>,
     <<<<At(3, 0, 0, 0), At(3, 9, 0, 1)>>, <<At(10, 9, 0, 0), At(10, 17, 0, 0)>>>>}

Timestamps ==
    {<<1, 9, 0, 0, 0, BuenosAires>>, <<1, 9, 0, 0, 1, BuenosAires>>, <<1, 23, 30, 59, 0, 0>>,
     <<8, 0, 0, 0, 0, 5>>, <<>>, <<1, 9, 0, 0, 0>>, <<1, 24, 0, 0, 0, BuenosAires>>,
     <<1, 9, 60, 0, 0, 0>>}

NewCalls ==
    {[op |-> "new", tenant |-> TenantT, file |-> f, clientOk |-> ok] :
        f \in CalFiles, ok \in BOOLEAN}

SlotCalls ==
    {[op |-> "slots", svc |-> c, clock |-> t, zoneOk |-> z, calendar |-> cal, queryOk |-> ok] :
        c \in Services, t \in Clocks, z \in BOOLEAN, cal \in Calendars, ok \in BOOLEAN}

BookCalls ==
    {[op |-> "book", svc |-> c, isoStart |-> x, contactName |-> <<"A", "n", "a">>,
      contactPhone |-> User7, insertOk |-> ok] :
        c \in Services, x \in Timestamps, ok \in BOOLEAN}

InitCalendar ==
    /\ \E e \in CalEnvs : InitCall(e, DiskOf(FileA), EmptyMap)
    /\ fin \in {Ptr(c) : c \in NewCalls \cup SlotCalls \cup BookCalls}

CallNewCalendarService ==
    /\ fin # Nil /\ fout = Nil /\ fin[1].op = "new"
    /\ fout' = Ptr(NewCalendarService(fin[1].tenant, fin[1].file, fin[1].clientOk))
    /\ UNCHANGED <<env, resolver, disk, cache, sessions, pc, queue, cur, out, seen, fin>>

CallGetNextAvailableSlots ==
    /\ fin # Nil /\ fout = Nil /\ fin[1].op = "slots"
    /\ fout' = Ptr(GetNextAvailableSlots(fin[1].svc, fin[1].clock, fin[1].zoneOk,
                                         fin[1].calendar, fin[1].queryOk))
    /\ UNCHANGED <<env, resolver, disk, cache, sessions, pc, queue, cur, out, seen, fin>>

CallCreateAppointment ==
    /\ fin # Nil /\ fout = Nil /\ fin[1].op = "book"
    /\ fout' = Ptr(CreateAppointment(fin[1].svc, fin[1].isoStart, fin[1].contactName,
                                     fin[1].contactPhone, fin[1].insertOk))
    /\ UNCHANGED <<env, resolver, disk, cache, sessions, pc, queue, cur, out, seen, fin>>

NextCalendar == CallNewCalendarService \/ CallGetNextAvailableSlots \/ CallCreateAppointment

SpecCalendar == InitCalendar /\ [][NextCalendar]_vars

(* renderVars *)

VarTemplates ==
    {<<>>, <<"s", "i", "n">>, <<"{", "{", "x", "}", "}">>, <<"{", "{", "a", "}">>,
     <<"H", "o", "l", "a", " ", "{", "{", "n", "a", "m", "e", "}", "}">>,
     <<"{", "{", "a", "}", "}">>,
     <<"{", "{", "b", "}", "}", "{", "{", "a", "}", "}">>,
     <<"{", "{", "a", "}", "}", " ", "{", "{", "a", "}", "}", "{", "{", "x", "}", "}">>,
     <<"{", "{", "{", "{", "a", "}", "}", "}", "}">>,
     <<"{", "{", "b", "{", "{", "a", "}", "}", "}", "}">>,
     <<"{", " ", "}", "a", "b">>,
     <<"{", "{", "n", "a", "m", "e", "}", "}", "{", "{", "a", "}", "}">>}

VarMaps ==
    {EmptyMap,
     MapPut(EmptyMap, NameKey, <<"A", "n", "a">>),
     MapPut(EmptyMap, NameKey, <<"{", "{", "n", "a", "m", "e", "}", "}">>),
     MapPut(EmptyMap, <<"a">>, <<>>),
     MapPut(MapPut(EmptyMap, <<"a">>, <<"1">>), <<"b">>, <<"2", "2">>),
     MapPut(MapPut(EmptyMap, <<"a">>, <<"{", "{", "b", "}", "}">>), <<"b">>, <<"x">>),
     MapPut(MapPut(EmptyMap, <<"a">>, <<>>), <<"b">>, <<"x">>)}

InitVars ==
    /\ InitCall(EnvDev, DiskOf(FileA), EmptyMap)
    /\ fin \in {Ptr([s |-> s, vars |-> vs]) : s \in VarTemplates, vs \in VarMaps}

CallRenderVars ==
    /\ fin # Nil /\ fout = Nil
    /\ \E order \in RangeOrders(DOMAIN fin[1].vars) :
         fout' = Ptr(renderVars(fin[1].s, fin[1].vars, order))
    /\ UNCHANGED <<env, resolver, disk, cache, sessions, pc, queue, cur, out, seen, fin>>

NextVars == CallRenderVars

SpecVars == InitVars /\ [][NextVars]_vars

-----------------------------------------------------------------------------
(* Properties *)

\* body reads "menu", in any letter case, with nothing but white space around.
SaysMenu(body) ==
    \E i \in 1..Len(body) :
        /\ i + 3 <= Len(body)
        /\ body[i] \in {"m", "M"} /\ body[i + 1] \in {"e", "E"}
        /\ body[i + 2] \in {"n", "N"} /\ body[i + 3] \in {"u", "U"}
        /\ \A j \in 1..Len(body) : (j < i \/ j > i + 3) => body[j] \in SpaceRunes

\* A call of processMessage has returned without error; the definition it
\* decided on is then the cached one.
Decided == fin # Nil /\ fout # Nil /\ fout[1].err = Nil

DecidedFlow == cache[fin[1].tenant]

DecidedOn(next, handled) == fout[1].next = next /\ fout[1].handled = handled

IsFreeText(msg) == msg.Type = "text" /\ msg.Text # Nil

\* The id an interactive message selects: a pointer, Nil when there is none.
SelectedId(msg) ==
    IF msg.Type # "interactive" \/ msg.Interactive = Nil THEN Nil
    ELSE IF msg.Interactive[1].Type = "list_reply" THEN msg.Interactive[1].ListReply
    ELSE IF msg.Interactive[1].Type = "button_reply" THEN msg.Interactive[1].ButtonReply
    ELSE Nil

\* C1 as stated: a free-text message that reads "menu" yields ("MENU", true)
\* in every current state, a state name missing from the flow included.
C1_MenuAnyState ==
    (Decided /\ IsFreeText(fin[1].msg) /\ SaysMenu(fin[1].msg.Text[1]))
        => DecidedOn("MENU", TRUE)

\* C1 amended: a free-text message that reads "menu" yields ("MENU", true) in
\* every current state that is a key of the flow definition.
C1_MenuKnownState ==
    (Decided /\ IsFreeText(fin[1].msg) /\ SaysMenu(fin[1].msg.Text[1])
        /\ fin[1].state \in DOMAIN DecidedFlow.States)
        => DecidedOn("MENU", TRUE)

C1_Witness ==
    /\ Decided /\ fin[1].state = "INFO" /\ "INFO" \in DOMAIN DecidedFlow.States
    /\ fin[1].msg = TextMsg(User7, <<" ", "M", "e", "N", "u", "\n">>)
    /\ DecidedOn("MENU", TRUE)

\* C2: when the flow definition loads and the current state is not one of its
\* keys, the result is ("MENU", false) without error, whatever the message.
C2_UnknownStateResets ==
    (fin # Nil /\ fout # Nil /\ fin[1].tenant \in DOMAIN cache
        /\ fin[1].state \notin DOMAIN DecidedFlow.States)
        => fout[1].err = Nil /\ DecidedOn("MENU", FALSE)

C2_Witness ==
    /\ Decided /\ fin[1].state = "GHOST"
    /\ fin[1].msg = TextMsg(User7, <<"m", "e", "n", "u">>)
    /\ DecidedOn("MENU", FALSE)

\* C3 as stated: in an existing state a selection yields (mappedState, true)
\* exactly when the selection map contains the selected id, and any other
\* message that is not free text yields ("MENU", false).
C3_SelectionInMap ==
    (Decided /\ fin[1].msg.Type # "text" /\ fin[1].state \in DOMAIN DecidedFlow.States)
        => LET st == DecidedFlow.States[fin[1].state]
               id == SelectedId(fin[1].msg)
           IN  IF id # Nil /\ id[1] \in DOMAIN st.OnSelectNext
               THEN DecidedOn(st.OnSelectNext[id[1]], TRUE)
               ELSE DecidedOn("MENU", FALSE)

\* C3 amended: in an existing state a selection yields (mappedState, true)
\* exactly when the selection map maps the selected id to a non-empty state
\* name; every other selection, interactive sub-kind or unsupported message
\* kind yields ("MENU", false).
C3_SelectionMapped ==
    (Decided /\ fin[1].msg.Type # "text" /\ fin[1].state \in DOMAIN DecidedFlow.States)
        => LET st == DecidedFlow.States[fin[1].state]
               id == SelectedId(fin[1].msg)
           IN  IF id # Nil /\ id[1] \in DOMAIN st.OnSelectNext /\ st.OnSelectNext[id[1]] # ""
               THEN DecidedOn(st.OnSelectNext[id[1]], TRUE)
               ELSE DecidedOn("MENU", FALSE)

C3_Witness ==
    /\ Decided /\ fin[1].state = "MENU" /\ "INFO" \in DOMAIN DecidedFlow.States
    /\ fin[1].msg = ButtonReplyMsg(User7, "r1")
    /\ DecidedOn("INFO", TRUE)

\* C4: in an existing state a free-text message that does not read "menu"
\* yields (onTextNext, true) when the state declares that transition and
\* ("MENU", false) otherwise, whatever the text.
C4_TextFollowsOnTextNext ==
    (Decided /\ IsFreeText(fin[1].msg) /\ ~SaysMenu(fin[1].msg.Text[1])
        /\ fin[1].state \in DOMAIN DecidedFlow.States)
        => LET st == DecidedFlow.States[fin[1].state]
           IN  IF st.OnTextNext # "" THEN DecidedOn(st.OnTextNext, TRUE)
               ELSE DecidedOn("MENU", FALSE)

C4_Witness ==
    /\ Decided /\ fin[1].state = "START" /\ "START" \in DOMAIN DecidedFlow.States
    /\ fin[1].msg = TextMsg(User7, <<"m", "e", "n", "u", "s">>)
    /\ DecidedOn("NEXT", TRUE)

\* The session of worker w's current message has been written.
AfterSessSet(w) == cur[w].dec # Nil /\ cur[w].dec[1].err = Nil /\ cur[w].nextState # ""

\* C5: once decide has succeeded with handled = false, the stored session and
\* the state handed to the renderer are "MENU"; so a session that held a name
\* missing from the definition is "MENU" after the next processed message.
C5_UnhandledResetsToMenu ==
    \A w \in Workers :
        (AfterSessSet(w)
            /\ (~cur[w].dec[1].handled \/ cur[w].sess \notin DOMAIN cur[w].cfg[1].States))
            => /\ cur[w].nextState = "MENU"
               /\ sessions[cur[w].sessKey].State = "MENU"
               /\ cur[w].render # Nil => cur[w].render[1].state = "MENU"

C5_Witness ==
    \E w \in Workers :
        /\ AfterSessSet(w) /\ cur[w].sess = "GHOST" /\ cur[w].render # Nil
        /\ cur[w].render[1].state = "MENU"
        /\ sessions[cur[w].sessKey].State = "MENU"

\* C6: every state name handed to the renderer is a key of the tenant's
\* loaded flow definition, so RenderAndSend never fails on an unknown state.
C6_RenderedStateExists ==
    \A w \in Workers :
        /\ pc[w] = "render" =>
              cur[w].nextState \in DOMAIN cache[cur[w].item[1].tenant].States
        /\ cur[w].render # Nil =>
              cur[w].render[1].err # RenderError("estado no existe", cur[w].render[1].state)

\* C7: two different (tenant, user) pairs never share a session: the first
\* message ever taken up for a pair finds no session under its key.
C7_SessionsPerPair ==
    \A w \in Workers : (cur[w].item # Nil /\ cur[w].first) => ~cur[w].found

\* C8: a call of RenderAndSend issues one text request for a text state, one
\* interactive request and no text for a list state, and no request at all
\* when it fails before sending (definition not loaded, unknown state,
\* unsupported kind, list state without list).
C8_SingleMessage ==
    (fin # Nil /\ fout # Nil)
        => LET r == fout[1]
           IN  /\ Len(r.sends) <= 1
               /\ IF fin[1].tenant \notin DOMAIN cache
                     \/ fin[1].state \notin DOMAIN DecidedFlow.States
                  THEN r.sends = <<>> /\ r.err # Nil
                  ELSE LET st == DecidedFlow.States[fin[1].state]
                       IN  IF st.Type = "text"
                           THEN /\ Len(r.sends) = 1
                                /\ r.sends[1].payload.type = "text"
                                /\ r.sends[1].payload.interactive = Nil
                           ELSE IF st.Type = "interactive_list" /\ st.List # Nil
                           THEN /\ Len(r.sends) = 1
                                /\ r.sends[1].payload.type = "interactive"
                                /\ r.sends[1].payload.text = Nil
                           ELSE r.sends = <<>> /\ r.err # Nil

C8_Witness ==
    /\ fin # Nil /\ fout # Nil /\ fin[1].tenant \in DOMAIN cache
    /\ fin[1].state = "NEXT" /\ "NEXT" \in DOMAIN DecidedFlow.States
    /\ Len(fout[1].sends) = 1
    /\ fout[1].sends[1].payload.type = "interactive"

\* The fields of cfg that break a limit of the outbound channel: the state,
\* the field, its place in the list and its text.
Violations(cfg) ==
    LET lists   == {n \in DOMAIN cfg.States :
                       cfg.States[n].Type = "interactive_list" /\ cfg.States[n].List # Nil}
        L(n)    == cfg.States[n].List[1]
        secs(n) == {<<n, i>> : i \in 1..Len(L(n).Sections)}
        rows(n) == UNION {{<<n, i, j>> : j \in 1..Len(L(n).Sections[i].Rows)} :
                             i \in 1..Len(L(n).Sections)}
        R(x)    == L(x[1]).Sections[x[2]].Rows[x[3]]
    IN  {<<n, "header", <<>>, L(n).Header>> : n \in {m \in lists : Len(L(m).Header) > 60}}
        \cup {<<n, "footer", <<>>, L(n).Footer>> : n \in {m \in lists : Len(L(m).Footer) > 60}}
        \cup {<<n, "button_text", <<>>, L(n).ButtonText>> :
                 n \in {m \in lists : Len(L(m).ButtonText) > 20}}
        \cup {<<x[1], "section title", <<x[2]>>, L(x[1]).Sections[x[2]].Title>> :
                 x \in {y \in UNION {secs(n) : n \in lists} :
                           Len(L(y[1]).Sections[y[2]].Title) > 24}}
        \cup {<<x[1], "row id", <<x[2], x[3]>>, R(x).Title>> :
                 x \in {y \in UNION {rows(n) : n \in lists} : R(y).ID = ""}}
        \cup {<<x[1], "row title", <<x[2], x[3]>>, R(x).Title>> :
                 x \in {y \in UNION {rows(n) : n \in lists} : Len(R(y).Title) > 24}}
        \cup {<<x[1], "row desc", <<x[2], x[3]>>, R(x).Description>> :
                 x \in {y \in UNION {rows(n) : n \in lists} : Len(R(y).Description) > 72}}

\* C9: a decoded flow definition with at least one state fails to load if and
\* only if some field of an interactive-list state breaks its limit (a field
\* at its limit is accepted), and the error lists every such field.
C9_ValidationAtLoad ==
    (fin # Nil /\ fout # Nil /\ disk[fin[1].tenant].kind = "json"
        /\ DOMAIN disk[fin[1].tenant].cfg.States # {})
        => LET V == Violations(disk[fin[1].tenant].cfg)
               r == fout[1]
           IN  /\ r.err # Nil <=> V # {}
               /\ r.err = Nil => r.cfg = disk[fin[1].tenant].cfg
               /\ r.err # Nil =>
                     /\ r.err[1].kind = "invalid"
                     /\ Len(r.err[1].errs) = Cardinality(V)
                     /\ \A v \in V : \E i \in 1..Len(r.err[1].errs) :
                           /\ r.err[1].errs[i][1] = v[1]
                           /\ r.err[1].errs[i][2] = v[2]
                           /\ r.err[1].errs[i][4] = v[4]

C9_Witness ==
    /\ fin # Nil /\ fout # Nil /\ fout[1].err # Nil
    /\ Len(fout[1].err[1].errs) = 10
    /\ Cardinality(Violations(disk[fin[1].tenant].cfg)) = 10

\* What loadFlowConfig accepts.
Loadable(file) ==
    file.kind = "json" /\ DOMAIN file.cfg.States # {} /\ Violations(file.cfg) = {}

\* C10: under any interleaving, a tenant is cached only with a definition
\* that has a state and breaks no limit; a load that fails caches nothing and
\* its message ends in a processing error, a message after the correction
\* loads the corrected definition and goes on with it cached.
C10_CacheHoldsOnlyLoaded ==
    /\ \A t \in DOMAIN cache : DOMAIN cache[t].States # {} /\ Violations(cache[t]) = {}
    /\ \A w \in Workers :
          /\ cur[w].file # Nil =>
                IF Loadable(cur[w].file[1])
                THEN /\ cur[w].cfg = Ptr(cur[w].file[1].cfg)
                     /\ cur[w].dec # Nil => cur[w].dec[1].err = Nil
                     /\ pc[w] # "cacheSet" => cur[w].item[1].tenant \in DOMAIN cache
                ELSE /\ cur[w].cfg = Nil
                     /\ cur[w].dec # Nil /\ cur[w].dec[1].err # Nil
                     /\ cur[w].nextState = "" /\ cur[w].render = Nil
          /\ (cur[w].dec # Nil /\ cur[w].dec[1].err = Nil) =>
                cur[w].item[1].tenant \in DOMAIN cache
          /\ (cur[w].dec # Nil /\ cur[w].dec[1].err # Nil) =>
                cur[w].file # Nil /\ ~Loadable(cur[w].file[1])

C10_Witness ==
    \E w, v \in Workers :
        /\ cur[w].file # Nil /\ ~Loadable(cur[w].file[1]) /\ cur[w].dec # Nil
        /\ cur[v].file # Nil /\ Loadable(cur[v].file[1]) /\ cur[v].dec # Nil
        /\ cur[v].item[1].tenant = cur[w].item[1].tenant
        /\ cache[cur[v].item[1].tenant] = cur[v].file[1].cfg

\* The instant a timestamp text in RFC 3339 form names.
Instant(x) == x[1] * Day + x[2] * Hour + x[3] * Minute + x[4] * Second + x[5] - x[6] * Hour

\* A call of GetNextAvailableSlots has returned its slots.
SlotsReturned == fin # Nil /\ fout # Nil /\ fin[1].op = "slots" /\ fout[1].err = Nil

SlotStarts == [i \in 1..Len(fout[1].slots) |-> Instant(fout[1].slots[i].ISOValue)]

\* The offset of the zone the call computes in, and the day it calls today.
ScanZone == IF fin[1].zoneOk THEN 0 - 3 ELSE 0

ScanToday == (fin[1].clock + ScanZone * Hour) \div Day

\* The starts of the candidate slots of the scan: the hours from the start
\* hour to the end hour, exclusive, of the working days among today and the
\* nine days after it.
CandidateStarts ==
    LET c == fin[1].svc
    IN  {(ScanToday + d) * Day + h * Hour - ScanZone * Hour :
            d \in {e \in 0..9 : \E i \in 1..Len(c.WorkDays) : c.WorkDays[i] = (ScanToday + e) % 7},
            h \in c.StartHour..(c.EndHour - 1)}

\* The window of the query, from the second the clock reads to 7 days on, and
\* the busy intervals the service answers with.
QueryFrom == fin[1].clock - (fin[1].clock % Second)

QueryTo == QueryFrom + 7 * Day

FetchedBusy ==
    LET cal == fin[1].calendar
    IN  {<<IF cal[i][1] < QueryFrom THEN QueryFrom ELSE cal[i][1],
           IF cal[i][2] > QueryTo THEN QueryTo ELSE cal[i][2]>> :
            i \in {j \in 1..Len(cal) : cal[j][1] < QueryTo /\ cal[j][2] > QueryFrom}}

Overlapped(s) == \E b \in FetchedBusy : s < b[2] /\ s + Hour > b[1]

FreeStarts == {s \in CandidateStarts : s >= fin[1].clock /\ ~Overlapped(s)}

\* C11: every slot GetNextAvailableSlots returns starts after the evaluation
\* instant, also when that instant is an hour boundary of a working day.
C11_SlotsStartAfterNow ==
    SlotsReturned => \A i \in 1..Len(fout[1].slots) : SlotStarts[i] > fin[1].clock

\* C12: the slots returned are the chronologically first min(3, n) of the n
\* free candidate slots of the scan, in strictly increasing order of start,
\* never more than 3, the i-th with display id "SLOT_i".
C12_FirstFreeSlots ==
    SlotsReturned
        => LET k == Len(fout[1].slots)
           IN  /\ k <= 3
               /\ k = IF Cardinality(FreeStarts) < 3 THEN Cardinality(FreeStarts) ELSE 3
               /\ \A i \in 1..k :
                     /\ SlotStarts[i] \in FreeStarts
                     /\ \A s \in FreeStarts :
                           s < SlotStarts[i] <=> \E j \in 1..(i - 1) : SlotStarts[j] = s
                     /\ fout[1].slots[i].ID = <<"SLOT_1", "SLOT_2", "SLOT_3">>[i]

C12_Witness ==
    /\ SlotsReturned
    /\ fin[1].clock = At(1, 8, 0, 0) /\ fin[1].zoneOk /\ fin[1].calendar = <<>>
    /\ fin[1].svc.StartHour = 9 /\ fin[1].svc.EndHour = 17
    /\ fin[1].svc.WorkDays = <<1, 2, 3, 4, 5>>
    /\ Len(fout[1].slots) = 3
    /\ fout[1].slots[1] = [ID |-> "SLOT_1", Text |-> <<1, 1, 9, 0>>,
                           ISOValue |-> <<1, 9, 0, 0, 0, 0 - 3>>]
    /\ fout[1].slots[2].ISOValue = <<1, 10, 0, 0, 0, 0 - 3>>
    /\ fout[1].slots[3] = [ID |-> "SLOT_3", Text |-> <<1, 1, 11, 0>>,
                           ISOValue |-> <<1, 11, 0, 0, 0, 0 - 3>>]

\* C13: a candidate slot that is not in the past is left out if and only if
\* slotStart < busyEnd and slotEnd > busyStart for some fetched busy
\* interval; an interval that ends at the slot's start or starts at its end
\* does not exclude it.
C13_HalfOpenBusy ==
    SlotsReturned
        => LET k       == Len(fout[1].slots)
               scanned == {s \in CandidateStarts :
                              s >= fin[1].clock /\ (k < 3 \/ s <= SlotStarts[k])}
           IN  \A s \in scanned :
                  (\E i \in 1..k : SlotStarts[i] = s)
                      <=> ~(\E b \in FetchedBusy : s < b[2] /\ s + Hour > b[1])

C13_Witness ==
    /\ SlotsReturned
    /\ fin[1].clock = At(1, 8, 0, 0) /\ fin[1].zoneOk
    /\ fin[1].calendar = <<<<At(1, 10, 0, 0), At(1, 11, 0, 0)>>>>
    /\ fin[1].svc.StartHour = 9 /\ fin[1].svc.EndHour = 17
    /\ Len(fout[1].slots) = 3
    /\ SlotStarts = <<At(1, 9, 0, 0), At(1, 11, 0, 0), At(1, 12, 0, 0)>>

\* C14: every slot returned lies inside the window of the free/busy query,
\* from the evaluation instant to 7 days after it.
C14_SlotsInsideQueryWindow ==
    SlotsReturned
        => \A i \in 1..Len(fout[1].slots) :
              /\ SlotStarts[i] >= Instant(fout[1].query.TimeMin)
              /\ SlotStarts[i] + Hour <= Instant(fout[1].query.TimeMax)

\* A call of CreateAppointment has returned.
Booked == fin # Nil /\ fout # Nil /\ fin[1].op = "book"

\* The text is a timestamp in RFC 3339 form.
Parseable(x) ==
    /\ Len(x) = 6
    /\ x[2] \in 0..23 /\ x[3] \in 0..59 /\ x[4] \in 0..59 /\ x[5] \in 0..(Second - 1)

\* C15 as stated: for a parseable timestamp T the inserted event starts at T
\* and ends at T + 1 hour; for an unparseable one the call fails and no
\* insert is attempted.
C15_BookingRoundTrip ==
    Booked
        => IF Parseable(fin[1].isoStart)
           THEN /\ Len(fout[1].inserts) = 1
                /\ Instant(fout[1].inserts[1].event.Start) = Instant(fin[1].isoStart)
                /\ Instant(fout[1].inserts[1].event.End) = Instant(fin[1].isoStart) + Hour
           ELSE fout[1].err # Nil /\ fout[1].inserts = <<>>

\* C15 amended: for a parseable timestamp T the inserted event starts at T
\* cut to the whole second and ends one hour after its start, so at T and
\* T + 1 hour when T has no fraction of a second; for an unparseable one the
\* call fails and no insert is attempted.
C15_BookingWholeSeconds ==
    Booked
        => IF Parseable(fin[1].isoStart)
           THEN /\ Len(fout[1].inserts) = 1
                /\ Instant(fout[1].inserts[1].event.Start)
                      = Instant(fin[1].isoStart) - fin[1].isoStart[5]
                /\ Instant(fout[1].inserts[1].event.End)
                      = Instant(fout[1].inserts[1].event.Start) + Hour
                /\ fout[1].inserts[1].event.Start[6] = fin[1].isoStart[6]
                /\ fout[1].inserts[1].calID = fin[1].svc.calID
           ELSE fout[1].err # Nil /\ fout[1].inserts = <<>>

C15_Witness ==
    /\ Booked /\ fin[1].isoStart = <<1, 23, 30, 59, 0, 0>>
    /\ Len(fout[1].inserts) = 1
    /\ fout[1].inserts[1].event.Start = <<1, 23, 30, 59, 0, 0>>
    /\ fout[1].inserts[1].event.End = <<2, 0, 30, 59, 0, 0>>

\* C17: the service NewCalendarService returns has its start and end hours
\* within 0..24, an hour outside that range having been replaced by its
\* default, and a weekday set that is not empty.
C17_HoursWithinDay ==
    (fin # Nil /\ fout # Nil /\ fin[1].op = "new" /\ fout[1].err = Nil)
        => /\ fout[1].svc.StartHour \in 0..24
           /\ fout[1].svc.EndHour \in 0..24
           /\ Len(fout[1].svc.WorkDays) > 0

\* The key of vs whose placeholder {{key}} the text s starts with, if any.
PlaceholderAt(s, vs) ==
    {k \in DOMAIN vs :
        /\ Len(s) >= Len(k) + 4
        /\ SubSeq(s, 1, Len(k) + 4) = <<"{", "{">> \o k \o <<"}", "}">>}

\* The template with every placeholder of a key of vs replaced by the key's
\* value, and every other character kept.
RECURSIVE Substituted(_, _)
Substituted(s, vs) ==
    IF s = <<>> THEN <<>>
    ELSE IF PlaceholderAt(s, vs) = {} THEN <<Head(s)>> \o Substituted(Tail(s), vs)
    ELSE LET k == CHOOSE x \in PlaceholderAt(s, vs) : TRUE
         IN  vs[k] \o Substituted(SubSeq(s, Len(k) + 5, Len(s)), vs)

\* C16: renderVars returns the template with every occurrence of {{key}},
\* key in the mapping, replaced by the key's value and everything else,
\* placeholders of other keys included, left as it is; a template without
\* placeholders comes back unchanged.
C16_EveryPlaceholderReplaced ==
    (fin # Nil /\ fout # Nil) => fout[1] = Substituted(fin[1].s, fin[1].vars)

\* The message worker w is handling.
MessageOf(w) == cur[w].item[1].msg

\* C18: once a free-text message that reads "menu" has been processed for a
\* tenant whose definition loads, the stored session of its sender is
\* "MENU", whatever state the session was in.
C18_MenuResetsSession ==
    \A w \in Workers :
        (AfterSessSet(w) /\ IsFreeText(MessageOf(w)) /\ SaysMenu(MessageOf(w).Text[1]))
            => /\ cur[w].nextState = "MENU"
               /\ sessions[cur[w].sessKey].State = "MENU"

C18_Witness ==
    \E w \in Workers :
        /\ AfterSessSet(w) /\ IsFreeText(MessageOf(w)) /\ SaysMenu(MessageOf(w).Text[1])
        /\ cur[w].sess = "INFO"
        /\ cur[w].cfg[1].States["INFO"].OnTextNext = "BYE"
        /\ sessions[cur[w].sessKey].State = "MENU"

\* C19: a session write stores the writer's next state, decided on the state
\* the writer read, whatever the store holds by then; so of two deliveries
\* of one user that both read before either wrote, the one that writes last
\* determines the stored state.
C19_LastWriteWins ==
    [][\A w \in Workers :
          (pc[w] = "sessSet" /\ pc'[w] # "sessSet")
              => /\ cur'[w].nextState =
                       IF cur[w].dec[1].handled THEN cur[w].dec[1].next ELSE "MENU"
                 /\ sessions'[cur[w].sessKey].State = cur'[w].nextState
                 /\ \A k \in DOMAIN sessions \ {cur[w].sessKey} : sessions'[k] = sessions[k]]_vars

C19_Witness ==
    \E w, v \in Workers :
        /\ w # v /\ AfterSessSet(w) /\ AfterSessSet(v)
        /\ cur[w].sessKey = cur[v].sessKey
        /\ cur[w].found /\ cur[v].found /\ cur[w].sess = cur[v].sess
        /\ cur[w].dec[1].handled /\ cur[w].nextState # cur[w].sess
        /\ cur[v].nextState # cur[w].nextState
        /\ sessions[cur[w].sessKey].State = cur[v].nextState

\* C20: a caller that missed the cache is never blocked, goes on with the
\* definition its own load returned when that load succeeds, and its Set
\* stores that definition whatever the cache holds by then; so of two callers
\* that both missed, the later Set determines the cached definition.
C20_ConcurrentFirstLoad ==
    /\ [](\A w \in Workers :
             /\ pc[w] = "load" => ENABLED Load(w)
             /\ pc[w] = "cacheSet" =>
                   /\ ENABLED CacheSet(w)
                   /\ cur[w].file # Nil /\ cur[w].cfg = Ptr(cur[w].file[1].cfg)
             /\ (cur[w].file # Nil /\ cur[w].cfg # Nil /\ cur[w].dec # Nil) =>
                   cur[w].dec = Ptr(decide(cur[w].file[1].cfg, cur[w].sess, MessageOf(w))))
    /\ [][\A w \in Workers :
             (pc[w] = "cacheSet" /\ pc'[w] # "cacheSet")
                 => cache'[cur[w].item[1].tenant] = cur[w].cfg[1]]_vars

C20_Witness ==
    \E w, v \in Workers :
        /\ w # v
        /\ cur[w].file # Nil /\ cur[v].file # Nil
        /\ cur[w].item[1].tenant = cur[v].item[1].tenant
        /\ cur[w].dec # Nil /\ cur[w].dec[1].err = Nil
        /\ cur[v].dec # Nil /\ cur[v].dec[1].err = Nil
        /\ cur[w].cfg # cur[v].cfg
        /\ cache[cur[v].item[1].tenant] = cur[v].cfg[1]

\* Worker w's RenderAndSend has returned an error.
RenderFailed(w) == cur[w].render # Nil /\ cur[w].render[1].err # Nil

\* The fallback reply of the dispatcher to the sender of worker w's message.
IsFallback(w, sent) ==
    /\ sent.payload.type = "text"
    /\ sent.payload.text = Ptr(MenuErrorReply)
    /\ sent.payload.to = Recipient(Deref(NewWhatsAppClient(cur[w].item[1].phoneID).client),
                                   MessageOf(w).From)

\* C21: the session is written before the render and a failed RenderAndSend
\* does not undo it: from the session write to the end of the message the
\* store holds the next state; after a failed render the fallback text can
\* always be sent, and the step that sends it leaves the store as it is and
\* adds that one text to what the renderer sent; when the sender's next
\* message is taken up the session is read, and the message decided, in that
\* next state.
C21_NoRollbackOnRenderFailure ==
    /\ [](\A w \in SeqWorkers :
             /\ pc[w] \in {"render", "renderSend", "fallback"} =>
                   sessions[cur[w].sessKey].State = cur[w].nextState
             /\ RenderFailed(w) =>
                   /\ sessions[cur[w].sessKey].State = cur[w].nextState
                   /\ cur[w].render[1].state = cur[w].nextState
                   /\ pc[w] \in {"fallback", "sessGet", "done"}
             /\ pc[w] = "fallback" =>
                   /\ RenderFailed(w) /\ ENABLED Fallback(w)
                   /\ out[w] = cur[w].render[1].sends
             /\ (cur[w].dec # Nil /\ cur[w].cfg # Nil) =>
                   cur[w].dec[1] = decide(cur[w].cfg[1], cur[w].sess, MessageOf(w)))
    /\ [][\A w \in SeqWorkers :
             /\ (pc[w] = "renderSend" /\ pc'[w] # "renderSend") =>
                   /\ sessions' = sessions
                   /\ (cur'[w].render[1].err # Nil) = (pc'[w] = "fallback")
             /\ (pc[w] = "fallback" /\ pc'[w] # "fallback") =>
                   /\ sessions' = sessions
                   /\ Len(out'[w]) = Len(out[w]) + 1
                   /\ SubSeq(out'[w], 1, Len(out[w])) = out[w]
                   /\ IsFallback(w, out'[w][Len(out'[w])])
             /\ (pc[w] = "sessGet" /\ pc'[w] # "sessGet" /\ RenderFailed(w)
                   /\ cur'[w].sessKey = cur[w].sessKey) =>
                   /\ cur'[w].found
                   /\ cur'[w].sess = cur[w].nextState]_vars

\* A failed render of the state selected from the menu, its fallback sent,
\* with the sender's next message waiting; and a message decided in the state
\* GHOST, which is stored only ahead of a render that fails.
C21_Witness ==
    \E w \in SeqWorkers :
        /\ RenderFailed(w) /\ pc[w] = "sessGet"
        /\ cur[w].sess = "MENU" /\ cur[w].nextState = "INFO"
        /\ sessions[cur[w].sessKey].State = "INFO"
        /\ Len(out[w]) = 2 /\ IsFallback(w, out[w][2])
        /\ Head(queue[w]).msg.From = MessageOf(w).From

C21_WitnessAhead ==
    \E w \in SeqWorkers :
        /\ cur[w].found /\ cur[w].sess = "GHOST" /\ cur[w].dec # Nil
        /\ cur[w].dec[1] = UnknownStateDecision

\* The load of worker w's tenant has failed in processMessage.
DecideFailed(w) == cur[w].dec # Nil /\ cur[w].dec[1].err # Nil

\* The generic error reply of the dispatcher to the sender of w's message.
IsErrorReply(w, sent) ==
    /\ sent.payload.type = "text"
    /\ sent.payload.text = Ptr(ErrorReply)
    /\ sent.payload.to = Recipient(Deref(NewWhatsAppClient(cur[w].item[1].phoneID).client),
                                   MessageOf(w).From)

\* C22: when the tenant's definition does not load, processMessage fails
\* without touching the session store or the cache; the error text can then
\* always be sent, and the step that sends it is the only request of that
\* message, leaves store and cache as they are and moves on to the next
\* message of the delivery, which can always be taken up.  The sender's
\* session stays the state read ("MENU" when it was just created) and the
\* renderer is never reached.
C22_DecideFailureSkipsOneMessage ==
    /\ [](\A w \in SeqWorkers :
             /\ DecideFailed(w) =>
                   /\ cur[w].render = Nil /\ cur[w].rcfg = Nil /\ cur[w].nextState = ""
                   /\ sessions[cur[w].sessKey].State = cur[w].sess
                   /\ ~cur[w].found => cur[w].sess = "MENU"
                   /\ pc[w] \in {"errReply", "sessGet", "done"}
                   /\ IF pc[w] = "errReply" THEN out[w] = <<>>
                      ELSE Len(out[w]) = 1 /\ IsErrorReply(w, out[w][1])
             /\ pc[w] = "errReply" => (DecideFailed(w) /\ ENABLED ErrReply(w))
             /\ pc[w] = "sessGet" => (queue[w] # <<>> /\ ENABLED SessGet(w)))
    /\ [][\A w \in SeqWorkers :
             /\ (pc[w] = "load" /\ pc'[w] # "load") =>
                   /\ sessions' = sessions /\ cache' = cache /\ queue' = queue
                   /\ (cur'[w].dec # Nil) = (pc'[w] = "errReply")
             /\ (pc[w] = "errReply" /\ pc'[w] # "errReply") =>
                   /\ sessions' = sessions /\ cache' = cache
                   /\ queue'[w] = Tail(queue[w])
                   /\ pc'[w] = IF queue'[w] = <<>> THEN "done" ELSE "sessGet"]_vars

\* The first of two messages of a new user has failed on a definition that
\* does not load, the error text is sent and the second message is waiting.
C22_Witness ==
    \E w \in SeqWorkers :
        /\ DecideFailed(w) /\ ~cur[w].found
        /\ sessions[cur[w].sessKey].State = "MENU"
        /\ Len(out[w]) = 1 /\ IsErrorReply(w, out[w][1])
        /\ pc[w] = "sessGet" /\ Len(queue[w]) = 1

\* C23: the result of a call of renderVars is the one every order of visiting
\* the mapping's keys gives, also when a value holds the placeholder of
\* another key.
C23_OrderIndependent ==
    (fin # Nil /\ fout # Nil) =>
        \A order \in RangeOrders(DOMAIN fin[1].vars) :
            renderVars(fin[1].s, fin[1].vars, order) = fout[1]

====
